---- MODULE Spec2Model ----
(***************************************************************************)
(* Finance simulation: month utilities (src/utils/months.ts), the store's  *)
(* paint commits (store.ts) and the monthly simulation (simulation.ts).    *)
(*                                                                         *)
(* A month token is the JavaScript string 'YYYY-MM', modelled as the       *)
(* sequence of its characters: a digit is its value 0..9 and the hyphen is *)
(* Hyphen = -1, which sorts before every digit as '-' (0x2D) sorts before  *)
(* '0' (0x30).  Strings are compared as JavaScript compares them, code     *)
(* unit by code unit.                                                      *)
(***************************************************************************)
EXTENDS Integers, Sequences, FiniteSets, TLC

VARIABLES
    situations,        \* store: Situation[]
    scenarios,         \* store: Scenario[]
    activeScenarioId,  \* store: id of the scenario the timeline edits
    last,              \* history: the store operation that ran last, with its arguments
    rows,              \* result of simulateAll: scenario id -> MonthlyBalance[]
    months,            \* argument of the monthsToRanges call under test
    ranges,            \* its result, NoResult before the call
    gesture,           \* TimelineEditor: the paint gesture (React state and refs)
    sync               \* the sync server, its clients and the messages in flight

vars == <<situations, scenarios, activeScenarioId, last, rows, months, ranges, gesture, sync>>

storeVars == <<situations, scenarios, activeScenarioId, last>>

NoResult == "none"

-----------------------------------------------------------------------------
(* Bounds of the model.                                                    *)

\* number of consecutive calendar months the store's inputs are drawn from
UniverseLen == 3

\* number of consecutive calendar months the arguments of monthsToRanges are drawn from
MonthsUniverseLen == 5

\* longest array given to monthsToRanges
MaxMonths == 3

\* longest axis (durationMonths) of a drawn scenario
MaxDuration == 3

\* most entries, most overrides of a drawn scenario
MaxEntries == 2

MaxEffectEntries == 1

-----------------------------------------------------------------------------
(* Strings.                                                                *)

Hyphen == -1

\* String(n) for an integer n: decimal digits, no padding, '-' for a negative
RECURSIVE NumberToString(_)
NumberToString(n) ==
    IF n < 0 THEN <<Hyphen>> \o NumberToString(-n)
    ELSE IF n < 10 THEN <<n>>
    ELSE NumberToString(n \div 10) \o <<n % 10>>

\* s.padStart(2, '0')
padStart2(s) ==
    IF Len(s) = 0 THEN <<0, 0>>
    ELSE IF Len(s) = 1 THEN <<0>> \o s
    ELSE s

\* Number(s) for a string of digits ('' is 0)
RECURSIVE StringToNumber(_)
StringToNumber(s) ==
    IF s = <<>> THEN 0
    ELSE StringToNumber(SubSeq(s, 1, Len(s) - 1)) * 10 + s[Len(s)]

\* s.split('-')
RECURSIVE split(_)
split(s) ==
    IF \A i \in 1..Len(s) : s[i] # Hyphen THEN <<s>>
    ELSE LET h == CHOOSE i \in 1..Len(s) :
                     /\ s[i] = Hyphen
                     /\ \A j \in 1..(i - 1) : s[j] # Hyphen
         IN  <<SubSeq(s, 1, h - 1)>> \o split(SubSeq(s, h + 1, Len(s)))

\* a < b on strings: the first differing code unit decides, a proper prefix is smaller
RECURSIVE StrLess(_, _)
StrLess(a, b) ==
    IF b = <<>> THEN FALSE
    ELSE IF a = <<>> THEN TRUE
    ELSE IF a[1] # b[1] THEN a[1] < b[1]
    ELSE StrLess(Tail(a), Tail(b))

StrLeq(a, b) == a = b \/ StrLess(a, b)

-----------------------------------------------------------------------------
(* src/utils/months.ts                                                     *)

\* the (year, month index) a Date built by new Date(year, monthIndex, 1) holds:
\* years 0..99 mean 1900..1999, a month index outside 0..11 carries into the year
DateOf(year, monthIndex) ==
    LET y     == IF year \in 0..99 THEN 1900 + year ELSE year
        total == y * 12 + monthIndex
    IN  [fullYear |-> total \div 12, month |-> total % 12]

addMonths(month, n) ==
    LET parts == split(month)
        year  == StringToNumber(parts[1])
        m     == StringToNumber(parts[2])
        date  == DateOf(year, m - 1 + n)
    IN  NumberToString(date.fullYear) \o <<Hyphen>>
            \o padStart2(NumberToString(date.month + 1))

RECURSIVE monthsBetween(_, _)
monthsBetween(start, end) ==
    IF StrLeq(start, end)
    THEN <<start>> \o monthsBetween(addMonths(start, 1), end)
    ELSE <<>>

\* Array.prototype.sort() without a comparator on an array of strings
RECURSIVE sort(_)
sort(arr) ==
    IF Len(arr) <= 1 THEN arr
    ELSE LET rest == sort(Tail(arr))
             x    == arr[1]
             k    == Cardinality({i \in 1..Len(rest) : StrLess(rest[i], x)})
         IN  SubSeq(rest, 1, k) \o <<x>> \o SubSeq(rest, k + 1, Len(rest))

\* the loop of monthsToRanges from index i on (1-based), with its locals
RECURSIVE monthsToRangesLoop(_, _, _, _, _)
monthsToRangesLoop(sorted, i, start, prev, acc) ==
    IF i > Len(sorted)
    THEN Append(acc, [startMonth |-> start, endMonth |-> prev])
    ELSE IF addMonths(prev, 1) = sorted[i]
    THEN monthsToRangesLoop(sorted, i + 1, start, sorted[i], acc)
    ELSE monthsToRangesLoop(sorted, i + 1, sorted[i], sorted[i],
                            Append(acc, [startMonth |-> start, endMonth |-> prev]))

\* mutant: the input is scanned in the order given, without sorting it first
monthsToRanges_unsorted(arr) ==
    IF Len(arr) = 0 THEN <<>>
    ELSE monthsToRangesLoop(arr, 2, arr[1], arr[1], <<>>)

monthsToRanges(arr) ==
    IF Len(arr) = 0 THEN <<>>
    ELSE LET sorted == sort(arr)
         IN  monthsToRangesLoop(sorted, 2, sorted[1], sorted[1], <<>>)

rangeToMonths(start, end) == monthsBetween(start, end)

sortMonths(a, b) == IF StrLeq(a, b) THEN <<a, b>> ELSE <<b, a>>

-----------------------------------------------------------------------------
(* Inputs: the month tokens of a window that spans a year change.          *)

UniverseStart == <<2, 0, 2, 4, Hyphen, 1, 1>>    \* '2024-11'

Range(seq) == {seq[i] : i \in 1..Len(seq)}

UniverseSeq == monthsBetween(UniverseStart, addMonths(UniverseStart, UniverseLen - 1))

Universe == Range(UniverseSeq)

MonthsUniverse ==
    Range(monthsBetween(UniverseStart, addMonths(UniverseStart, MonthsUniverseLen - 1)))

\* the arrays without repetition of at most n tokens of S, in every order
RECURSIVE ArraysOf(_, _)
ArraysOf(S, n) ==
    IF n = 0 THEN {<<>>}
    ELSE LET shorter == ArraysOf(S, n - 1)
         IN  shorter \cup {Append(a, x) : a \in shorter, x \in S}

DistinctArraysOf(S, n) ==
    {a \in ArraysOf(S, n) : \A i, j \in 1..Len(a) : i # j => a[i] # a[j]}

-----------------------------------------------------------------------------
(* Specification of the month utilities: one call of monthsToRanges.       *)

InitMonths ==
    /\ months \in DistinctArraysOf(MonthsUniverse, MaxMonths)
    /\ ranges = NoResult
    /\ situations = <<>>
    /\ scenarios = <<>>
    /\ activeScenarioId = ""
    /\ last = [op |-> "init"]
    /\ rows = <<>>
    /\ gesture = NoResult
    /\ sync = NoResult

CallMonthsToRanges ==
    /\ ranges = NoResult
    /\ ranges' = monthsToRanges(months)
    /\ UNCHANGED <<months, situations, scenarios, activeScenarioId, last, rows, gesture, sync>>

NextMonths == CallMonthsToRanges

SpecMonths == InitMonths /\ [][NextMonths]_vars

-----------------------------------------------------------------------------
(* JavaScript Set<string>: its elements in insertion order.                *)

SetHas(set, x) == x \in Range(set)

SetAdd(set, x) == IF SetHas(set, x) THEN set ELSE Append(set, x)

SetDelete(set, x) == SelectSeq(set, LAMBDA y : y # x)

\* mutant: an element that is in the set already is taken out
RECURSIVE SetAddAll_toggle(_, _)
SetAddAll_toggle(set, arr) ==
    IF arr = <<>> THEN set
    ELSE SetAddAll_toggle(IF SetHas(set, arr[1]) THEN SetDelete(set, arr[1])
                          ELSE Append(set, arr[1]),
                          Tail(arr))

RECURSIVE SetAddAll(_, _)
SetAddAll(set, arr) ==
    IF arr = <<>> THEN set ELSE SetAddAll(SetAdd(set, arr[1]), Tail(arr))

RECURSIVE SetDeleteAll(_, _)
SetDeleteAll(set, arr) ==
    IF arr = <<>> THEN set ELSE SetDeleteAll(SetDelete(set, arr[1]), Tail(arr))

-----------------------------------------------------------------------------
(* store.ts: helpers.                                                      *)

\* uid(): ids are numbers here; n new ids are the n smallest that no record of
\* the store carries when the operation starts
RECURSIVE uid(_, _)
uid(used, n) ==
    IF n = 0 THEN <<>>
    ELSE LET id == CHOOSE k \in 1..(Cardinality(used) + 1) :
                      k \notin used /\ \A j \in 1..(k - 1) : j \in used
         IN  <<id>> \o uid(used \cup {id}, n - 1)

RECURSIVE activeMonthsFromEntries(_)
activeMonthsFromEntries(entries) ==
    IF entries = <<>> THEN <<>>
    ELSE LET before == activeMonthsFromEntries(SubSeq(entries, 1, Len(entries) - 1))
             entry  == entries[Len(entries)]
         IN  SetAddAll(before, rangeToMonths(entry.startMonth, entry.endMonth))

\* mutant: one entry for each month, months that follow one another are not merged
toScenarioEntries_perMonth(situationId, monthSet, used) ==
    LET ids == uid(used, Len(monthSet))
    IN  [i \in 1..Len(monthSet) |->
            [id |-> ids[i], situationId |-> situationId,
             startMonth |-> monthSet[i], endMonth |-> monthSet[i]]]

toScenarioEntries(situationId, monthSet, used) ==
    LET rs  == monthsToRanges(monthSet)
        ids == uid(used, Len(rs))
    IN  [i \in 1..Len(rs) |->
            [id |-> ids[i], situationId |-> situationId,
             startMonth |-> rs[i].startMonth, endMonth |-> rs[i].endMonth]]

toScenarioEffectEntries(situationId, effectId, monthSet, used) ==
    LET rs  == monthsToRanges(monthSet)
        ids == uid(used, Len(rs))
    IN  [i \in 1..Len(rs) |->
            [id |-> ids[i], situationId |-> situationId, effectId |-> effectId,
             startMonth |-> rs[i].startMonth, endMonth |-> rs[i].endMonth]]

\* Array.prototype.find: the first element with the id, or NotFound
NotFound == [id |-> "undefined"]

find(arr, id) ==
    IF \E i \in 1..Len(arr) : arr[i].id = id
    THEN arr[CHOOSE i \in 1..Len(arr) :
                 arr[i].id = id /\ \A j \in 1..(i - 1) : arr[j].id # id]
    ELSE NotFound

IdsOf(recs) == {recs[i].id : i \in 1..Len(recs)}

\* every id an entry or override of the store carries
UsedIds(scs) == UNION {IdsOf(scs[i].entries) \cup IdsOf(scs[i].effectEntries) : i \in 1..Len(scs)}

\* the keys of the Map effectGroups, in insertion order
RECURSIVE effectGroupKeys(_, _)
effectGroupKeys(effectEntries, situationId) ==
    IF effectEntries = <<>> THEN <<>>
    ELSE LET before == effectGroupKeys(SubSeq(effectEntries, 1, Len(effectEntries) - 1), situationId)
             entry  == effectEntries[Len(effectEntries)]
         IN  IF entry.situationId # situationId THEN before
             ELSE SetAdd(before, entry.effectId)

\* mutant: months after the end of the axis are kept
clipToScenario_noEnd(monthSet, startMonth, scenarioEnd) ==
    SelectSeq(monthSet, LAMBDA m : ~StrLess(m, startMonth))

\* months of the set that lie on the axis [startMonth, scenarioEnd]
clipToScenario(monthSet, startMonth, scenarioEnd) ==
    SelectSeq(monthSet, LAMBDA m : ~(StrLess(m, startMonth) \/ StrLess(scenarioEnd, m)))

-----------------------------------------------------------------------------
(* store.ts: paintEntries.                                                 *)

\* mutant: the overrides of the situation are regenerated without pruning them
RECURSIVE prunedEffectEntries_unpruned(_, _, _, _, _)
prunedEffectEntries_unpruned(keys, scenario, situationId, situationActive, used) ==
    IF keys = <<>> THEN <<>>
    ELSE LET effectId     == keys[1]
             entries      == SelectSeq(scenario.effectEntries,
                                 LAMBDA e : e.situationId = situationId /\ e.effectId = effectId)
             made         == toScenarioEffectEntries(situationId, effectId,
                                                     activeMonthsFromEntries(entries), used)
         IN  made \o prunedEffectEntries_unpruned(Tail(keys), scenario, situationId,
                                                  situationActive, used \cup IdsOf(made))

\* the loop over effectGroups: the pruned overrides of the situation
RECURSIVE prunedEffectEntries(_, _, _, _, _)
prunedEffectEntries(keys, scenario, situationId, situationActive, used) ==
    IF keys = <<>> THEN <<>>
    ELSE LET effectId     == keys[1]
             entries      == SelectSeq(scenario.effectEntries,
                                 LAMBDA e : e.situationId = situationId /\ e.effectId = effectId)
             effectMonths == activeMonthsFromEntries(entries)
             kept         == SelectSeq(effectMonths, LAMBDA m : SetHas(situationActive, m))
             made         == toScenarioEffectEntries(situationId, effectId, kept, used)
         IN  made \o prunedEffectEntries(Tail(keys), scenario, situationId, situationActive,
                                         used \cup IdsOf(made))

\* the scenario paintEntries puts in place of s, computed from the active scenario
paintedScenario(s, scenario, situationId, paintedMonths, mode, used) ==
    LET committed       == activeMonthsFromEntries(
                               SelectSeq(scenario.entries, LAMBDA e : e.situationId = situationId))
        gestured        == IF mode = "add" THEN SetAddAll(committed, paintedMonths)
                           ELSE SetDeleteAll(committed, paintedMonths)
        scenarioEnd     == addMonths(scenario.startMonth, scenario.durationMonths - 1)
        situationActive == clipToScenario(gestured, scenario.startMonth, scenarioEnd)
        otherSituationEntries == SelectSeq(scenario.entries, LAMBDA e : e.situationId # situationId)
        newSituationEntries   == toScenarioEntries(situationId, situationActive, used)
        effectEntriesForOtherSituations ==
            SelectSeq(scenario.effectEntries, LAMBDA e : e.situationId # situationId)
        prunedEffectEntriesForSituation ==
            prunedEffectEntries(effectGroupKeys(scenario.effectEntries, situationId), scenario,
                                situationId, situationActive, used \cup IdsOf(newSituationEntries))
    IN  [s EXCEPT !.entries = otherSituationEntries \o newSituationEntries,
                  !.effectEntries = effectEntriesForOtherSituations \o prunedEffectEntriesForSituation]

\* the scenarios of the store after paintEntries
paintEntriesSet(scs, activeId, situationId, paintedMonths, mode) ==
    LET scenario == find(scs, activeId)
    IN  IF scenario = NotFound THEN scs
        ELSE [i \in 1..Len(scs) |->
                 IF scs[i].id = activeId
                 THEN paintedScenario(scs[i], scenario, situationId, paintedMonths, mode,
                                      UsedIds(scs))
                 ELSE scs[i]]

paintEntries(situationId, paintedMonths, mode) ==
    /\ scenarios' = paintEntriesSet(scenarios, activeScenarioId, situationId, paintedMonths, mode)
    /\ last' = [op |-> "paintEntries", situationId |-> situationId, effectId |-> "",
                months |-> paintedMonths, mode |-> mode, before |-> scenarios]
    /\ UNCHANGED <<situations, activeScenarioId, rows, months, ranges, sync>>

-----------------------------------------------------------------------------
(* store.ts: paintEffectEntries.                                           *)

\* mutant: the disabled months are not cleaned (axis, months the situation is active)
effectPaintedScenario_uncleaned(s, scenario, situationId, effectId, paintedMonths, mode, used) ==
    LET situationActive == activeMonthsFromEntries(
                               SelectSeq(scenario.entries, LAMBDA e : e.situationId = situationId))
        disabledMonths  == activeMonthsFromEntries(
                               SelectSeq(scenario.effectEntries,
                                   LAMBDA e : e.situationId = situationId /\ e.effectId = effectId))
        gestured        == IF mode = "add" THEN SetDeleteAll(disabledMonths, paintedMonths)
                           ELSE SetAddAll(disabledMonths,
                                    SelectSeq(paintedMonths, LAMBDA m : SetHas(situationActive, m)))
        otherEffectEntries ==
            SelectSeq(scenario.effectEntries,
                      LAMBDA e : ~(e.situationId = situationId /\ e.effectId = effectId))
    IN  [s EXCEPT !.effectEntries =
             otherEffectEntries \o toScenarioEffectEntries(situationId, effectId, gestured, used)]

\* mutant: the overrides of the other effects are not kept
effectPaintedScenario_alone(s, scenario, situationId, effectId, paintedMonths, mode, used) ==
    LET scenarioEnd     == addMonths(scenario.startMonth, scenario.durationMonths - 1)
        situationActive == activeMonthsFromEntries(
                               SelectSeq(scenario.entries, LAMBDA e : e.situationId = situationId))
        disabledMonths  == activeMonthsFromEntries(
                               SelectSeq(scenario.effectEntries,
                                   LAMBDA e : e.situationId = situationId /\ e.effectId = effectId))
        gestured        == IF mode = "add" THEN SetDeleteAll(disabledMonths, paintedMonths)
                           ELSE SetAddAll(disabledMonths,
                                    SelectSeq(paintedMonths, LAMBDA m : SetHas(situationActive, m)))
        cleaned         == SelectSeq(clipToScenario(gestured, scenario.startMonth, scenarioEnd),
                                     LAMBDA m : SetHas(situationActive, m))
    IN  [s EXCEPT !.effectEntries =
             toScenarioEffectEntries(situationId, effectId, cleaned, used)]

\* the scenario paintEffectEntries puts in place of s, computed from the active scenario
effectPaintedScenario(s, scenario, situationId, effectId, paintedMonths, mode, used) ==
    LET scenarioEnd     == addMonths(scenario.startMonth, scenario.durationMonths - 1)
        situationActive == activeMonthsFromEntries(
                               SelectSeq(scenario.entries, LAMBDA e : e.situationId = situationId))
        currentDisabledEntries ==
            SelectSeq(scenario.effectEntries,
                      LAMBDA e : e.situationId = situationId /\ e.effectId = effectId)
        disabledMonths  == activeMonthsFromEntries(currentDisabledEntries)
        gestured        == IF mode = "add" THEN SetDeleteAll(disabledMonths, paintedMonths)
                           ELSE SetAddAll(disabledMonths,
                                    SelectSeq(paintedMonths, LAMBDA m : SetHas(situationActive, m)))
        cleaned         == SelectSeq(clipToScenario(gestured, scenario.startMonth, scenarioEnd),
                                     LAMBDA m : SetHas(situationActive, m))
        otherEffectEntries ==
            SelectSeq(scenario.effectEntries,
                      LAMBDA e : ~(e.situationId = situationId /\ e.effectId = effectId))
        nextEffectEntries == toScenarioEffectEntries(situationId, effectId, cleaned, used)
    IN  [s EXCEPT !.effectEntries = otherEffectEntries \o nextEffectEntries]

\* the scenarios of the store after paintEffectEntries: unchanged (return {}) when
\* there is no active scenario or the situation has no active month
paintEffectEntriesSet(scs, activeId, situationId, effectId, paintedMonths, mode) ==
    LET scenario == find(scs, activeId)
        situationActive ==
            activeMonthsFromEntries(
                SelectSeq(scenario.entries, LAMBDA e : e.situationId = situationId))
    IN  IF scenario = NotFound THEN scs
        ELSE IF Len(situationActive) = 0 THEN scs
        ELSE [i \in 1..Len(scs) |->
                 IF scs[i].id = activeId
                 THEN effectPaintedScenario(scs[i], scenario, situationId, effectId,
                                            paintedMonths, mode, UsedIds(scs))
                 ELSE scs[i]]

paintEffectEntries(situationId, effectId, paintedMonths, mode) ==
    /\ scenarios' = paintEffectEntriesSet(scenarios, activeScenarioId, situationId, effectId,
                                          paintedMonths, mode)
    /\ last' = [op |-> "paintEffectEntries", situationId |-> situationId,
                effectId |-> effectId, months |-> paintedMonths, mode |-> mode,
                before |-> scenarios]
    /\ UNCHANGED <<situations, activeScenarioId, rows, months, ranges, sync>>

-----------------------------------------------------------------------------
(* Inputs of the store.  The store holds whatever was persisted or imported *)
(* (loadData and replaceData take any array-typed data), so a scenario is   *)
(* drawn with entries and overrides that may overlap, touch, reach beyond   *)
(* the axis or cover months on which the situation is not placed.           *)

U(k) == UniverseSeq[k]

SampleSituations ==
    << [id |-> "s1",
        effects |-> << [id |-> "e1", type |-> "recurring", category |-> "income",
                        amount |-> 500, variancePercent |-> 10],
                       [id |-> "e2", type |-> "one-time", category |-> "expense",
                        amount |-> 900] >>],
       [id |-> "s2",
        effects |-> << [id |-> "e3", type |-> "recurring", category |-> "expense",
                        amount |-> 200, variancePercent |-> 20, varianceDirection |-> "+"] >>] >>

\* the sample after the situation s2 and the effect e2 of s1 have been deleted
WithoutE2 == << [SampleSituations[1] EXCEPT !.effects = SubSeq(@, 1, 1)] >>

\* the (situation, effect) pairs of the sample
SampleEffects == {<<"s1", "e1">>, <<"s1", "e2">>, <<"s2", "e3">>}

\* [start, end] pairs over the universe with start <= end
UniverseRanges == {r \in Universe \X Universe : StrLeq(r[1], r[2])}

\* lists of at most n elements of S
RECURSIVE ListsOf(_, _)
ListsOf(S, n) ==
    IF n = 0 THEN {<<>>}
    ELSE LET shorter == ListsOf(S, n - 1)
         IN  shorter \cup {Append(l, x) : l \in shorter, x \in S}

\* the ranges drawn for the second situation and for the effects besides e1
FewRanges == {<<U(1), U(2)>>, <<U(2), U(2)>>}

\* entries without their ids
DrawnEntries ==
    LET entry(sid, r) == [situationId |-> sid, startMonth |-> r[1], endMonth |-> r[2]]
    IN  ListsOf({entry("s1", r) : r \in UniverseRanges} \cup {entry("s2", r) : r \in FewRanges},
                MaxEntries)

\* overrides without their ids: lists of single overrides, and two lists that give
\* paintEntries two groups to prune and one group of two overlapping overrides
DrawnEffectEntries ==
    LET override(sid, eid, startMonth, endMonth) ==
            [situationId |-> sid, effectId |-> eid, startMonth |-> startMonth, endMonth |-> endMonth]
    IN  ListsOf({override("s1", "e1", r[1], r[2]) : r \in UniverseRanges}
                    \cup {override(se[1], se[2], r[1], r[2]) :
                              se \in SampleEffects \ {<<"s1", "e1">>}, r \in FewRanges},
                MaxEffectEntries)
            \cup {<<override("s1", "e2", U(2), U(UniverseLen)), override("s1", "e1", U(1), U(UniverseLen))>>,
                  <<override("s1", "e2", U(1), U(2)), override("s1", "e2", U(2), U(UniverseLen))>>}

\* records numbered from `from` on: their ids
WithIds(recs, from) ==
    [i \in 1..Len(recs) |-> [f \in DOMAIN recs[i] \cup {"id"} |->
                                IF f = "id" THEN from + i - 1 ELSE recs[i][f]]]

\* the axes: the first MaxDuration months of the universe, and its second month alone
DrawnAxes ==
    {[startMonth |-> U(1), durationMonths |-> MaxDuration],
     [startMonth |-> U(2), durationMonths |-> 1]}

\* a scenario that is not the active one
OtherScenario ==
    [id |-> "B", initialBalance |-> 0, startMonth |-> U(1), durationMonths |-> 2,
     entries |-> << [id |-> 101, situationId |-> "s1", startMonth |-> U(1), endMonth |-> U(2)] >>,
     effectEntries |-> << [id |-> 102, situationId |-> "s1", effectId |-> "e1",
                           startMonth |-> U(2), endMonth |-> U(2)] >>]

DrawnScenario(axis, entries, effectEntries) ==
    [id |-> "A", initialBalance |-> 1000,
     startMonth |-> axis.startMonth, durationMonths |-> axis.durationMonths,
     entries |-> WithIds(entries, 1),
     effectEntries |-> WithIds(effectEntries, Len(entries) + 1)]

Modes == {"add", "remove"}

NoOp == [op |-> "init", situationId |-> "", effectId |-> "", months |-> <<>>, mode |-> "",
         before |-> <<>>]

-----------------------------------------------------------------------------
(* Specification of the store: one paint commit on a drawn store.          *)

\* the scenarios of a store: an active scenario A beside another one
DrawnScenarios(axis, entries, effectEntries) ==
    <<DrawnScenario(axis, entries, effectEntries), OtherScenario>>

\* a drawn store; or the store whose last scenario was deleted, where
\* activeScenarioId is ''
Init ==
    /\ situations = SampleSituations
    /\ \/ /\ \E axis \in DrawnAxes, entries \in DrawnEntries,
                 effectEntries \in DrawnEffectEntries :
                    scenarios = DrawnScenarios(axis, entries, effectEntries)
          /\ activeScenarioId = "A"
       \/ /\ scenarios = <<>>
          /\ activeScenarioId = ""
    /\ last = NoOp
    /\ rows = <<>>
    /\ months = <<>>
    /\ ranges = NoResult
    /\ gesture = NoResult
    /\ sync = NoResult

PaintEntries ==
    /\ last.op = "init"
    /\ \E target \in {"s1", "s2"}, r \in UniverseRanges, mode \in Modes :
          paintEntries(target, monthsBetween(r[1], r[2]), mode)
    /\ UNCHANGED gesture

PaintEffectEntries ==
    /\ last.op = "init"
    /\ \E target \in SampleEffects, r \in UniverseRanges, mode \in Modes :
          paintEffectEntries(target[1], target[2], monthsBetween(r[1], r[2]), mode)
    /\ UNCHANGED gesture

Next ==
    \/ PaintEntries
    \/ PaintEffectEntries

Spec == Init /\ [][Next]_vars

-----------------------------------------------------------------------------
(* Two paint commits: the targets of the timeline and the call commitPaint  *)
(* makes for a target.                                                      *)

\* PaintTarget: a situation row or an effect row
SituationTarget(sid) == [kind |-> "situation", situationId |-> sid, effectId |-> ""]

EffectTarget(sid, eid) == [kind |-> "effect", situationId |-> sid, effectId |-> eid]

PaintTargets ==
    {SituationTarget(sid) : sid \in {"s1", "s2"}}
        \cup {EffectTarget(se[1], se[2]) : se \in SampleEffects}

\* the store after the call commitPaint makes for the target
commitSet(scs, activeId, target, paintedMonths, mode) ==
    IF target.kind = "situation"
    THEN paintEntriesSet(scs, activeId, target.situationId, paintedMonths, mode)
    ELSE paintEffectEntriesSet(scs, activeId, target.situationId, target.effectId,
                               paintedMonths, mode)

\* stores for a pair of commits: at most one entry of s1, s2 placed or not, at most
\* one override
PairEntries ==
    LET entry(sid, r) == [situationId |-> sid, startMonth |-> r[1], endMonth |-> r[2]]
    IN  {first \o second :
            first \in ListsOf({entry("s1", r) : r \in UniverseRanges}, 1),
            second \in {<<>>, <<entry("s2", <<U(1), U(2)>>)>>}}

PairEffectEntries ==
    LET override(sid, eid, r) ==
            [situationId |-> sid, effectId |-> eid, startMonth |-> r[1], endMonth |-> r[2]]
    IN  ListsOf({override("s1", "e1", r) : r \in FewRanges}
                    \cup {override("s1", "e2", <<U(2), U(2)>>),
                          override("s2", "e3", <<U(1), U(2)>>)}, 1)

InitPair ==
    /\ situations = SampleSituations
    /\ \E axis \in DrawnAxes, entries \in PairEntries, effectEntries \in PairEffectEntries :
          scenarios = DrawnScenarios(axis, entries, effectEntries)
    /\ activeScenarioId = "A"
    /\ last = NoOp
    /\ rows = <<>>
    /\ months = <<>>
    /\ ranges = NoResult
    /\ gesture = NoResult
    /\ sync = NoResult

SpecPair == InitPair /\ [][Next]_vars

-----------------------------------------------------------------------------
(* store.ts: replaceData and the normalisation it applies.                 *)

DEFAULT_SITUATION_CATEGORY == "Ohne Kategorie"

\* String.prototype.trim on the categories that are drawn
trim(c) == IF c = " " THEN "" ELSE c

normalizeSituation(s) ==
    LET category == IF "category" \in DOMAIN s THEN trim(s.category) ELSE ""
    IN  [f \in DOMAIN s \cup {"category"} |->
            IF f = "category"
            THEN (IF category # "" THEN category ELSE DEFAULT_SITUATION_CATEGORY)
            ELSE s[f]]

normalizeSituations(sits) == [i \in 1..Len(sits) |-> normalizeSituation(sits[i])]

\* savingsBalancePoints, which no claim reads, is not modelled
normalizeScenario(sc) ==
    [f \in DOMAIN sc \cup {"effectEntries"} |->
        IF f = "effectEntries"
        THEN (IF "effectEntries" \in DOMAIN sc THEN sc.effectEntries ELSE <<>>)
        ELSE sc[f]]

normalizeScenarios(scs) == [i \in 1..Len(scs) |-> normalizeScenario(scs[i])]

normalizeData(data) ==
    [situations |-> normalizeSituations(data.situations),
     scenarios  |-> normalizeScenarios(data.scenarios)]

\* mutant: the scenarios of the snapshot are appended to those of the store
replaceDataSet_merged(data, scs, activeId) ==
    LET normalized == normalizeData(data)
    IN  [situations |-> normalized.situations,
         scenarios  |-> SelectSeq(scs, LAMBDA sc : sc.id \notin IdsOf(normalized.scenarios))
                            \o normalized.scenarios,
         activeScenarioId |-> activeId]

\* the store replaceData sets
replaceDataSet(data, scs, activeId) ==
    LET normalized == normalizeData(data)
        activeStillExists == \E i \in 1..Len(normalized.scenarios) :
                                 normalized.scenarios[i].id = activeId
    IN  [situations |-> normalized.situations,
         scenarios  |-> normalized.scenarios,
         activeScenarioId |->
             IF activeStillExists THEN activeId
             ELSE IF normalized.scenarios # <<>> THEN normalized.scenarios[1].id ELSE ""]

-----------------------------------------------------------------------------
(* TimelineEditor.tsx: the paint gesture.  React state (useState), the refs *)
(* the document listener reads, and the effects that copy the one into the  *)
(* other.  React 18 renders the updates of a discrete event (mousedown,     *)
(* mouseup) and runs their effects before the next event is handled; the    *)
(* update of a mouseenter is rendered later, so its effect is a step of     *)
(* its own.                                                                 *)

MaxGestures == 2

MaxReplaces == 1

Null == <<>>

Some(v) == <<v>>

\* the initial values of useState and useRef
NoPaint ==
    [isPainting |-> FALSE, paintMode |-> "add", paintTarget |-> Null,
     paintAnchor |-> Null, paintCurrent |-> Null]

targetKey(target) ==
    IF target.kind = "situation" THEN <<"s", target.situationId>>
    ELSE <<"e", target.situationId, target.effectId>>

\* the months of the grid
gridMonths(scenario) ==
    monthsBetween(scenario.startMonth,
                  addMonths(scenario.startMonth, scenario.durationMonths - 1))

onGrid(scenario, month) ==
    /\ StrLeq(scenario.startMonth, month)
    /\ StrLeq(month, addMonths(scenario.startMonth, scenario.durationMonths - 1))

getSituationActiveMonths(scenario, situationId) ==
    SelectSeq(activeMonthsFromEntries(
                  SelectSeq(scenario.entries, LAMBDA e : e.situationId = situationId)),
              LAMBDA month : onGrid(scenario, month))

getEffectDisabledMonths(scenario, situationId, effectId) ==
    SelectSeq(activeMonthsFromEntries(
                  SelectSeq(scenario.effectEntries,
                      LAMBDA e : e.situationId = situationId /\ e.effectId = effectId)),
              LAMBDA month : onGrid(scenario, month))

\* committedEffect of an effect row
committedEffect(scenario, situationId, effectId) ==
    SelectSeq(getSituationActiveMonths(scenario, situationId),
              LAMBDA month : ~SetHas(getEffectDisabledMonths(scenario, situationId, effectId),
                                     month))

\* the set `committed` the cells of a row hand to startPaint
committedOf(scenario, target) ==
    IF target.kind = "situation" THEN getSituationActiveMonths(scenario, target.situationId)
    ELSE committedEffect(scenario, target.situationId, target.effectId)

\* isCellActive, from the rendered state st
isCellActive(st, target, month, committed) ==
    IF \/ ~st.isPainting \/ st.paintTarget = Null \/ st.paintAnchor = Null
       \/ st.paintCurrent = Null
       \/ targetKey(st.paintTarget[1]) # targetKey(target)
    THEN SetHas(committed, month)
    ELSE LET sorted  == sortMonths(st.paintAnchor[1], st.paintCurrent[1])
             inRange == StrLeq(sorted[1], month) /\ StrLeq(month, sorted[2])
         IN  IF st.paintMode = "add" THEN SetHas(committed, month) \/ inRange
             ELSE SetHas(committed, month) /\ ~inRange

\* the cell of a row is drawn active: in an effect row only where the situation
\* is active
cellShownActive(st, scenario, target, month) ==
    LET active == isCellActive(st, target, month, committedOf(scenario, target))
    IN  IF target.kind = "situation" THEN active
        ELSE /\ SetHas(getSituationActiveMonths(scenario, target.situationId), month)
             /\ active

\* mutant: every gesture adds
startPaint_add(target, month, committed) ==
    [isPainting |-> TRUE, paintMode |-> "add", paintTarget |-> Some(target),
     paintAnchor |-> Some(month), paintCurrent |-> Some(month)]

\* the React state after startPaint
startPaint(target, month, committed) ==
    LET active == SetHas(committed, month)
    IN  [isPainting |-> TRUE, paintMode |-> IF active THEN "remove" ELSE "add",
         paintTarget |-> Some(target), paintAnchor |-> Some(month),
         paintCurrent |-> Some(month)]

\* the rows of the grid: one for each situation, one for each of its effects
rowTargets(sits) ==
    {SituationTarget(sits[i].id) : i \in 1..Len(sits)}
        \cup UNION {{EffectTarget(sits[i].id, sits[i].effects[j].id) :
                        j \in 1..Len(sits[i].effects)} : i \in 1..Len(sits)}

\* the cells of the grid, none when no scenario is active
cells ==
    LET scenario == find(scenarios, activeScenarioId)
    IN  IF scenario = NotFound THEN {}
        ELSE {[target |-> t, month |-> gridMonths(scenario)[k]] :
                 t \in rowTargets(situations), k \in 1..scenario.durationMonths}

\* onMouseDown of a cell: startPaint, unless the cell is one of an effect row in a
\* month the situation is not active in
MouseDown ==
    /\ gesture.started < MaxGestures
    /\ \E cell \in cells :
          LET scenario == find(scenarios, activeScenarioId)
              situationIsActive ==
                  SetHas(getSituationActiveMonths(scenario, cell.target.situationId),
                         cell.month)
              started == startPaint(cell.target, cell.month,
                                    committedOf(scenario, cell.target))
          IN  IF cell.target.kind = "effect" /\ ~situationIsActive
              THEN UNCHANGED gesture
              ELSE gesture' = [gesture EXCEPT !.state = started, !.refs = started,
                                              !.started = @ + 1,
                                              !.startedOn = gesture.replaced]
    /\ UNCHANGED <<situations, scenarios, activeScenarioId, last, rows, months, ranges, sync>>

\* handleCellMouseEnter; setHoverCell, which only styles the cell, is not modelled
MouseEnter ==
    /\ \E cell \in cells :
          LET st == gesture.state
          IN  IF st.isPainting /\ st.paintTarget # Null
                  /\ targetKey(st.paintTarget[1]) = targetKey(cell.target)
              THEN gesture' = [gesture EXCEPT !.state.paintCurrent = Some(cell.month)]
              ELSE UNCHANGED gesture
    /\ UNCHANGED <<situations, scenarios, activeScenarioId, last, rows, months, ranges, sync>>

\* the effects after the render of a mouseenter: the refs take the rendered state
Effects ==
    /\ gesture.refs # gesture.state
    /\ gesture' = [gesture EXCEPT !.refs = gesture.state]
    /\ UNCHANGED <<situations, scenarios, activeScenarioId, last, rows, months, ranges, sync>>

\* commitPaint, from the refs
commitPaint ==
    LET refs    == gesture.refs
        target  == refs.paintTarget
        anchor  == refs.paintAnchor
        current == IF refs.paintCurrent # Null THEN refs.paintCurrent ELSE anchor
    IN  IF target = Null \/ anchor = Null \/ current = Null
        THEN UNCHANGED <<situations, scenarios, activeScenarioId, last, rows, months, ranges,
                         sync>>
        ELSE LET sorted == sortMonths(anchor[1], current[1])
                 painted == monthsBetween(sorted[1], sorted[2])
             IN  IF target[1].kind = "situation"
                 THEN paintEntries(target[1].situationId, painted, refs.paintMode)
                 ELSE paintEffectEntries(target[1].situationId, target[1].effectId, painted,
                                         refs.paintMode)

\* the state after the four setters of handleMouseUp
released(st) ==
    [st EXCEPT !.isPainting = FALSE, !.paintTarget = Null, !.paintAnchor = Null,
               !.paintCurrent = Null]

\* handleMouseUp, the listener of the document
MouseUp ==
    IF gesture.refs.isPainting
    THEN /\ commitPaint
         /\ gesture' = [gesture EXCEPT
                            !.state = released(gesture.state),
                            !.refs = released(gesture.state),
                            !.log = Append(@, [op |-> last'.op,
                                               target |-> gesture.refs.paintTarget,
                                               anchor |-> gesture.refs.paintAnchor,
                                               current |-> gesture.state.paintCurrent,
                                               months |-> last'.months, mode |-> last'.mode,
                                               before |-> scenarios, after |-> scenarios',
                                               inFlight |-> gesture.replaced > gesture.startedOn])]
    ELSE UNCHANGED vars

\* snapshots of another client: one written before overrides existed, one in
\* which the scenario A and every situation are deleted
RemoteSnapshots ==
    { [situations |-> << WithoutE2[1] @@ [category |-> " "] >>,
       scenarios  |-> << [id |-> "A", initialBalance |-> 500, startMonth |-> U(1),
                          durationMonths |-> MaxDuration,
                          entries |-> << [id |-> 201, situationId |-> "s1",
                                          startMonth |-> U(UniverseLen),
                                          endMonth |-> U(UniverseLen)] >>] >>],
      [situations |-> <<>>,
       scenarios  |-> << [id |-> "C", initialBalance |-> 0, startMonth |-> U(2),
                          durationMonths |-> 2,
                          entries |-> << [id |-> 301, situationId |-> "s1",
                                          startMonth |-> U(2), endMonth |-> U(2)] >>,
                          effectEntries |-> << [id |-> 302, situationId |-> "s1",
                                                effectId |-> "e1", startMonth |-> U(2),
                                                endMonth |-> U(2)] >>] >>] }

\* applyRemoteState hands a snapshot to replaceData; the gesture is not touched
ReplaceData ==
    /\ gesture.replaced < MaxReplaces
    /\ \E data \in RemoteSnapshots :
          LET store == replaceDataSet(data, scenarios, activeScenarioId)
          IN  /\ situations' = store.situations
              /\ scenarios' = store.scenarios
              /\ activeScenarioId' = store.activeScenarioId
              /\ gesture' = [gesture EXCEPT !.replaced = @ + 1, !.snapshot = Some(data)]
    /\ UNCHANGED <<last, rows, months, ranges, sync>>

\* the stores a gesture starts on
GestureEntries ==
    LET entry(sid, r) == [situationId |-> sid, startMonth |-> r[1], endMonth |-> r[2]]
    IN  {<<>>, <<entry("s1", <<U(1), U(2)>>)>>}

GestureEffectEntries ==
    {<<>>,
     << [situationId |-> "s1", effectId |-> "e1", startMonth |-> U(2), endMonth |-> U(2)] >>}

InitGesture ==
    /\ situations = WithoutE2
    /\ \E entries \in GestureEntries, effectEntries \in GestureEffectEntries :
          scenarios = << DrawnScenario([startMonth |-> U(1), durationMonths |-> MaxDuration],
                                       entries, effectEntries) >>
    /\ activeScenarioId = "A"
    /\ last = NoOp
    /\ rows = <<>>
    /\ months = <<>>
    /\ ranges = NoResult
    /\ gesture = [state |-> NoPaint, refs |-> NoPaint, started |-> 0, startedOn |-> 0,
                  log |-> <<>>, replaced |-> 0, snapshot |-> Null]
    /\ sync = NoResult

NextGesture ==
    \/ MouseDown
    \/ MouseEnter
    \/ Effects
    \/ MouseUp
    \/ ReplaceData

SpecGesture == InitGesture /\ [][NextGesture]_vars

-----------------------------------------------------------------------------
(* The sync server (sync-server/server.js and its profile-aware version)   *)
(* and the sync client (realtime.ts).  An array is a tagged list, a value   *)
(* that is not an array (a missing field among them) carries the tag only.  *)

MaxPuts == 2

MaxEdits == 1

LoadedVersion == 2

Clients == {"c1", "c2"}

Profiles == {"default", "p"}

Undefined == "undefined"

Arr(items) == [isArray |-> TRUE, items |-> items]

NotArr == [isArray |-> FALSE, items |-> <<>>]

\* a field the object does not have (undefined)
Missing == [isArray |-> FALSE, items |-> <<>>, missing |-> TRUE]

\* a data value: `defined` is false for a body without data
DataOf(sits, scs) == [defined |-> TRUE, situations |-> sits, scenarios |-> scs]

NoData == [defined |-> FALSE, situations |-> NotArr, scenarios |-> NotArr]

emptyData == DataOf(Arr(<<>>), Arr(<<>>))

D1 == DataOf(Arr(<<"s1">>), Arr(<<"A">>))

D2 == DataOf(Arr(<<"s1", "s2">>), Arr(<<"A">>))

ValidDatas == {D1, D2}

InvalidDatas == {DataOf(Arr(<<"s1">>), NotArr), DataOf(Missing, Arr(<<"A">>))}

\* mutant: any data object is taken
isValidData_any(data) == data.defined

isValidData(data) == data.defined /\ data.situations.isArray /\ data.scenarios.isArray

hasMeaningfulData(data) == Len(data.situations.items) > 0 \/ Len(data.scenarios.items) > 0

Max(a, b) == IF a >= b THEN a ELSE b

\* the state of a server that found no file
emptyState == [version |-> 0, data |-> emptyData]

\* a request body: text that is not JSON, or an object with the three fields
NotJson == [json |-> FALSE, clientId |-> [isString |-> FALSE, value |-> ""], baseVersion |-> 0,
            data |-> NoData]

Body(clientId, baseVersion, data) ==
    [json |-> TRUE, clientId |-> [isString |-> TRUE, value |-> clientId],
     baseVersion |-> baseVersion, data |-> data]

\* the clientId of the event payload
eventClientId(parsed) == IF parsed.clientId.isString THEN parsed.clientId.value ELSE Undefined

eventPayload(state, parsed) ==
    [version |-> state.version, data |-> state.data, clientId |-> eventClientId(parsed)]

\* the packet /api/state and a new event stream deliver: the state without clientId
statePayload(state) == [version |-> state.version, data |-> state.data, clientId |-> Undefined]

\* broadcast: the packet is written to every stream of the set
broadcast(streams, subscribers, payload) ==
    [c \in Clients |-> IF c \in subscribers THEN Append(streams[c], payload) ELSE streams[c]]

\* the answer reaches the sender when it is one of the clients of the model
respond(responses, sender, response) ==
    [c \in Clients |-> IF c = sender THEN Append(responses[c], response) ELSE responses[c]]

Ok(state) == [ok |-> TRUE, version |-> state.version]

Refused == [ok |-> FALSE, version |-> 0]

\* server.js, PUT /api/state: one state for every request; the state is assigned
\* before persistState, which throws when the file cannot be written
Put ==
    /\ sync.variant = "server.js"
    /\ \E r \in sync.requests :
          LET parsed   == r.body
              state    == sync.states["default"]
              newState == [version |-> state.version + 1, data |-> parsed.data]
              taken    == [sync EXCEPT !.requests = @ \ {r}]
          IN  IF ~parsed.json \/ ~isValidData(parsed.data)
              THEN sync' = [taken EXCEPT !.responses = respond(@, r.sender, Refused),
                                         !.status = 400]
              ELSE \E written \in BOOLEAN :
                      IF written
                      THEN sync' = [taken EXCEPT
                                       !.states["default"] = newState,
                                       !.files["default"] = Some(newState),
                                       !.streams = broadcast(@, sync.subscribers["default"],
                                                             eventPayload(newState, parsed)),
                                       !.responses = respond(@, r.sender, Ok(newState)),
                                       !.status = 200,
                                       !.accepted["default"] = Append(@, parsed.data)]
                      ELSE sync' = [taken EXCEPT
                                       !.states["default"] = newState,
                                       !.responses = respond(@, r.sender, Refused),
                                       !.status = 400]
    /\ UNCHANGED <<situations, scenarios, activeScenarioId, last, rows, months, ranges, gesture>>

\* the profile-aware server, PUT /api/state: a state for each profile; setState
\* logs a failure to write the file and goes on
PutProfile ==
    /\ sync.variant = "profiles"
    /\ \E r \in sync.requests :
          LET parsed   == r.body
              profile  == r.profile
              current  == sync.states[profile]
              newState == [version |-> current.version + 1, data |-> parsed.data]
              taken    == [sync EXCEPT !.requests = @ \ {r}]
          IN  IF ~parsed.json \/ ~isValidData(parsed.data)
              THEN sync' = [taken EXCEPT !.responses = respond(@, r.sender, Refused),
                                         !.status = 400]
              ELSE \E written \in BOOLEAN :
                      sync' = [taken EXCEPT
                                  !.states[profile] = newState,
                                  !.files[profile] = IF written THEN Some(newState) ELSE @,
                                  !.streams = broadcast(@, sync.subscribers[profile],
                                                        eventPayload(newState, parsed)),
                                  !.responses = respond(@, r.sender, Ok(newState)),
                                  !.status = 200,
                                  !.accepted[profile] = Append(@, parsed.data)]
    /\ UNCHANGED <<situations, scenarios, activeScenarioId, last, rows, months, ranges, gesture>>

\* a PUT of another program: any body, any profile
RawBodies ==
    {NotJson}
        \cup {[json |-> TRUE, clientId |-> [isString |-> FALSE, value |-> ""],
               baseVersion |-> 0, data |-> data] : data \in InvalidDatas \cup {D1}}

RawPut ==
    /\ sync.puts < MaxPuts
    /\ \E body \in RawBodies, profile \in Profiles :
          sync' = [sync EXCEPT
                      !.puts = @ + 1,
                      !.requests = @ \cup {[id |-> sync.puts + 1, sender |-> "other",
                                            profile |-> profile, body |-> body]}]
    /\ UNCHANGED <<situations, scenarios, activeScenarioId, last, rows, months, ranges, gesture>>

\* the request pushState sends
pushed(id, c, client, data) ==
    [id |-> id, sender |-> c, profile |-> "default",
     body |-> Body(c, client.latestVersion, data)]

\* an edit of the store of a client: the subscription schedules the push
LocalEdit ==
    /\ sync.edits < MaxEdits
    /\ \E c \in Clients, data \in ValidDatas :
          /\ data # sync.clients[c].data
          /\ sync' = [sync EXCEPT !.edits = @ + 1,
                                  !.clients[c].data = data,
                                  !.clients[c].timer = Some(data)]
    /\ UNCHANGED <<situations, scenarios, activeScenarioId, last, rows, months, ranges, gesture>>

\* the timer of schedulePush fires: pushState sends the data of the edit
TimerFires ==
    /\ sync.puts < MaxPuts
    /\ \E c \in Clients :
          /\ sync.clients[c].timer # Null
          /\ sync' = [sync EXCEPT
                         !.puts = @ + 1,
                         !.clients[c].timer = Null,
                         !.requests = @ \cup {pushed(sync.puts + 1, c, sync.clients[c],
                                                     sync.clients[c].timer[1])}]
    /\ UNCHANGED <<situations, scenarios, activeScenarioId, last, rows, months, ranges, gesture>>

\* pushState after the response; the push of bootstrap is followed by connectEvents
Response ==
    /\ \E c \in Clients :
          /\ sync.responses[c] # <<>>
          /\ LET payload == Head(sync.responses[c])
                 client  == sync.clients[c]
             IN  sync' = [sync EXCEPT
                             !.responses[c] = Tail(@),
                             !.clients[c].latestVersion =
                                 IF payload.ok THEN Max(@, payload.version) ELSE @,
                             !.clients[c].phase =
                                 IF @ = "pushing" THEN "connecting" ELSE @]
    /\ UNCHANGED <<situations, scenarios, activeScenarioId, last, rows, months, ranges, gesture>>

\* mutant: the version of the snapshot is not compared
applyRemoteState_unordered(client, clientId, payload) ==
    IF ~payload.data.defined THEN client
    ELSE IF payload.clientId \notin {Undefined, ""} /\ payload.clientId = clientId
    THEN [client EXCEPT !.latestVersion = Max(@, payload.version)]
    ELSE [client EXCEPT !.latestVersion = payload.version, !.data = payload.data]

\* applyRemoteState: the client after the payload; replaceData runs with
\* applyingRemoteRef set, so the subscription schedules no push
applyRemoteState(client, clientId, payload) ==
    IF ~payload.data.defined THEN client
    ELSE IF payload.clientId \notin {Undefined, ""} /\ payload.clientId = clientId
    THEN [client EXCEPT !.latestVersion = Max(@, payload.version)]
    ELSE IF payload.version <= client.latestVersion THEN client
    ELSE [client EXCEPT
             !.latestVersion = IF payload.version # 0 THEN payload.version ELSE @,
             !.data = payload.data]

\* the branch of applyRemoteState a payload takes
branch(client, clientId, payload) ==
    IF ~payload.data.defined THEN "nodata"
    ELSE IF payload.clientId \notin {Undefined, ""} /\ payload.clientId = clientId THEN "own"
    ELSE IF payload.version <= client.latestVersion THEN "old"
    ELSE "applied"

\* eventSource.onmessage
Event ==
    /\ \E c \in Clients :
          /\ sync.streams[c] # <<>>
          /\ sync' = [sync EXCEPT
                         !.streams[c] = Tail(@),
                         !.clients[c] = applyRemoteState(@, c, Head(sync.streams[c])),
                         !.seen = @ \cup {branch(sync.clients[c], c, Head(sync.streams[c]))}]
    /\ UNCHANGED <<situations, scenarios, activeScenarioId, last, rows, months, ranges, gesture>>

\* GET /api/state, answered to a client that starts
GetState ==
    /\ \E c \in Clients :
          /\ sync.clients[c].phase = "boot"
          /\ sync' = [sync EXCEPT !.clients[c].phase = "got",
                                  !.clients[c].remote = statePayload(sync.states["default"])]
    /\ UNCHANGED <<situations, scenarios, activeScenarioId, last, rows, months, ranges, gesture>>

\* bootstrap after the answer: the remote state is applied, or the local data pushed
Bootstrap ==
    /\ \E c \in Clients :
          LET client == sync.clients[c]
              remote == client.remote
          IN  /\ client.phase = "got"
              /\ IF hasMeaningfulData(remote.data)
                 THEN sync' = [sync EXCEPT
                                  !.clients[c] = [applyRemoteState(client, c, remote)
                                                      EXCEPT !.phase = "connecting"]]
                 ELSE IF hasMeaningfulData(client.data) /\ sync.puts < MaxPuts
                 THEN sync' = [sync EXCEPT
                                  !.puts = @ + 1,
                                  !.clients[c].phase = "pushing",
                                  !.requests = @ \cup {pushed(sync.puts + 1, c, client,
                                                              client.data)}]
                 ELSE sync' = [sync EXCEPT !.clients[c].phase = "connecting"]
    /\ UNCHANGED <<situations, scenarios, activeScenarioId, last, rows, months, ranges, gesture>>

\* GET /api/events: the stream starts with the state, then carries the broadcasts
Subscribe ==
    /\ \E c \in Clients :
          /\ sync.clients[c].phase = "connecting"
          /\ sync' = [sync EXCEPT
                         !.clients[c].phase = "connected",
                         !.streams[c] = Append(@, statePayload(sync.states["default"])),
                         !.subscribers["default"] = @ \cup {c}]
    /\ UNCHANGED <<situations, scenarios, activeScenarioId, last, rows, months, ranges, gesture>>

\* a client before bootstrap
Starting(data) ==
    [phase |-> "boot", latestVersion |-> 0, data |-> data, timer |-> Null,
     remote |-> statePayload(emptyState)]

\* a client that has applied the state and listens to the events
Connected(state) ==
    [phase |-> "connected", latestVersion |-> state.version, data |-> state.data,
     timer |-> Null, remote |-> statePayload(emptyState)]

\* a server that found no file or a file with a state; c1 is about to start on
\* data of its own, c2 is connected and holds the state of the server
InitSync ==
    /\ \E variant \in {"server.js", "profiles"},
          loaded \in {Null, Some([version |-> LoadedVersion, data |-> D1])} :
          sync = [variant     |-> variant,
                  states      |-> [p \in Profiles |->
                                      IF p = "default" /\ loaded # Null THEN loaded[1]
                                      ELSE emptyState],
                  files       |-> [p \in Profiles |-> IF p = "default" THEN loaded ELSE Null],
                  start       |-> [p \in Profiles |->
                                      IF p = "default" /\ loaded # Null THEN loaded[1].version
                                      ELSE 0],
                  subscribers |-> [p \in Profiles |-> IF p = "default" THEN {"c2"} ELSE {}],
                  streams     |-> [c \in Clients |-> <<>>],
                  requests    |-> {},
                  responses   |-> [c \in Clients |-> <<>>],
                  status      |-> 0,
                  clients     |-> [c \in Clients |->
                                      IF c = "c1" THEN Starting(D2)
                                      ELSE Connected(IF loaded # Null THEN loaded[1]
                                                     ELSE emptyState)],
                  puts        |-> 0,
                  edits       |-> 0,
                  accepted    |-> [p \in Profiles |-> <<>>],
                  seen        |-> {}]
    /\ situations = <<>>
    /\ scenarios = <<>>
    /\ activeScenarioId = ""
    /\ last = NoOp
    /\ rows = <<>>
    /\ months = <<>>
    /\ ranges = NoResult
    /\ gesture = NoResult

NextSync ==
    \/ Put
    \/ PutProfile
    \/ RawPut
    \/ LocalEdit
    \/ TimerFires
    \/ Response
    \/ Event
    \/ GetState
    \/ Bootstrap
    \/ Subscribe

SpecSync == InitSync /\ [][NextSync]_vars

-----------------------------------------------------------------------------
(* simulation.ts.  Amounts are whole numbers and variancePercent a whole     *)
(* number of percent; the tracks balanceMin and balanceMax are kept in       *)
(* hundredths, so that amount * (1 + v) is amount * (100 + variancePercent). *)

Hundred == 100

\* new Map(situations.map((s) => [s.id, s])).get(id): a later pair replaces an earlier one
\* mutant: an id that is not found yields the first situation
situationMapGet_first(sits, id) ==
    LET hits == {i \in 1..Len(sits) : sits[i].id = id}
    IN  IF hits = {} THEN sits[1]
        ELSE sits[CHOOSE i \in hits : \A j \in hits : j <= i]

situationMapGet(sits, id) ==
    LET hits == {i \in 1..Len(sits) : sits[i].id = id}
    IN  IF hits = {} THEN NotFound
        ELSE sits[CHOOSE i \in hits : \A j \in hits : j <= i]

\* mutant: no override is looked up
activeMonthsByEffectGet_none(scenario, endMonth, situationId, effectId) ==
    [defined |-> FALSE, set |-> <<>>]

\* activeMonthsByEffect.get(`${situationId}::${effectId}`): undefined when the scenario
\* has no override of the effect, else the months of its overrides that lie on the axis
activeMonthsByEffectGet(scenario, endMonth, situationId, effectId) ==
    LET entries == SelectSeq(scenario.effectEntries,
                       LAMBDA e : e.situationId = situationId /\ e.effectId = effectId)
    IN  IF entries = <<>> THEN [defined |-> FALSE, set |-> <<>>]
        ELSE [defined |-> TRUE,
              set |-> SelectSeq(activeMonthsFromEntries(entries),
                          LAMBDA month : StrLeq(scenario.startMonth, month)
                                             /\ StrLeq(month, endMonth))]

\* the sums of one month before the first entry is visited
ZeroSums ==
    [income |-> 0, expenses |-> 0, recurringIncome |-> 0, recurringExpenses |-> 0,
     incomeMin |-> 0, expMin |-> 0, incomeMax |-> 0, expMax |-> 0]

\* the sums after an effect that is applied
addEffect(sums, effect, hasUp, hasDown, v) ==
    IF effect.category = "income"
    THEN [sums EXCEPT
             !.income = @ + effect.amount,
             !.recurringIncome = @ + (IF effect.type = "recurring" THEN effect.amount ELSE 0),
             !.incomeMin = @ + effect.amount * (IF hasDown THEN Hundred - v ELSE Hundred),
             !.incomeMax = @ + effect.amount * (IF hasUp THEN Hundred + v ELSE Hundred)]
    ELSE [sums EXCEPT
             !.expenses = @ + effect.amount,
             !.recurringExpenses = @ + (IF effect.type = "recurring" THEN effect.amount ELSE 0),
             !.expMin = @ + effect.amount * (IF hasUp THEN Hundred + v ELSE Hundred),
             !.expMax = @ + effect.amount * (IF hasDown THEN Hundred - v ELSE Hundred)]

\* mutant: a one-time effect is applied in every month of its entry
applyEffect_everyMonth(sums, effect, entry, month, scenario, endMonth) ==
    LET disabledMonths == activeMonthsByEffectGet(scenario, endMonth, entry.situationId, effect.id)
        effectIsActive == ~disabledMonths.defined \/ ~SetHas(disabledMonths.set, month)
        v   == IF "variancePercent" \in DOMAIN effect THEN effect.variancePercent ELSE 0
        dir == IF "varianceDirection" \in DOMAIN effect THEN effect.varianceDirection ELSE "+-"
    IN  IF ~effectIsActive THEN sums
        ELSE addEffect(sums, effect, dir = "+" \/ dir = "+-", dir = "-" \/ dir = "+-", v)

\* mutant: the two directions are taken for one another
applyEffect_swapped(sums, effect, entry, month, scenario, endMonth) ==
    LET disabledMonths == activeMonthsByEffectGet(scenario, endMonth, entry.situationId, effect.id)
        effectIsActive == ~disabledMonths.defined \/ ~SetHas(disabledMonths.set, month)
        isFirstMonth   == month = entry.startMonth
        v   == IF "variancePercent" \in DOMAIN effect THEN effect.variancePercent ELSE 0
        dir == IF "varianceDirection" \in DOMAIN effect THEN effect.varianceDirection ELSE "+-"
    IN  IF ~effectIsActive THEN sums
        ELSE IF effect.type = "one-time" /\ ~isFirstMonth THEN sums
        ELSE addEffect(sums, effect, dir = "-" \/ dir = "+-", dir = "+" \/ dir = "+-", v)

\* the body of the loop over situation.effects; the direction '±' is written "+-"
applyEffect(sums, effect, entry, month, scenario, endMonth) ==
    LET disabledMonths == activeMonthsByEffectGet(scenario, endMonth, entry.situationId, effect.id)
        effectIsActive == ~disabledMonths.defined \/ ~SetHas(disabledMonths.set, month)
        isFirstMonth   == month = entry.startMonth
        v       == IF "variancePercent" \in DOMAIN effect THEN effect.variancePercent ELSE 0
        dir     == IF "varianceDirection" \in DOMAIN effect THEN effect.varianceDirection ELSE "+-"
        hasUp   == dir = "+" \/ dir = "+-"
        hasDown == dir = "-" \/ dir = "+-"
    IN  IF ~effectIsActive THEN sums
        ELSE IF effect.type = "one-time" /\ ~isFirstMonth THEN sums
        ELSE addEffect(sums, effect, hasUp, hasDown, v)

\* the body of the loop over scenario.entries
RECURSIVE applyEffects(_, _, _, _, _, _)
applyEffects(sums, effects, entry, month, scenario, endMonth) ==
    IF effects = <<>> THEN sums
    ELSE applyEffects(applyEffect(sums, Head(effects), entry, month, scenario, endMonth),
                      Tail(effects), entry, month, scenario, endMonth)

applyEntry(sums, entry, month, scenario, sits, endMonth) ==
    LET situation == situationMapGet(sits, entry.situationId)
    IN  IF StrLess(month, entry.startMonth) \/ StrLess(entry.endMonth, month) THEN sums
        ELSE IF situation = NotFound THEN sums
        ELSE applyEffects(sums, situation.effects, entry, month, scenario, endMonth)

\* the sums of one month after the loop over scenario.entries
RECURSIVE applyEntries(_, _, _, _, _, _)
applyEntries(sums, entries, month, scenario, sits, endMonth) ==
    IF entries = <<>> THEN sums
    ELSE applyEntries(applyEntry(sums, Head(entries), month, scenario, sits, endMonth),
                      Tail(entries), month, scenario, sits, endMonth)

monthSums(month, scenario, sits, endMonth) ==
    applyEntries(ZeroSums, scenario.entries, month, scenario, sits, endMonth)

\* mutant: the balance is not carried from one month to the next
RECURSIVE monthsLoop_uncarried(_, _, _, _, _, _, _)
monthsLoop_uncarried(axis, balance, balanceMin, balanceMax, scenario, sits, endMonth) ==
    IF axis = <<>> THEN <<>>
    ELSE LET month == Head(axis)
             sums  == monthSums(month, scenario, sits, endMonth)
             net   == sums.income - sums.expenses
             row   == [month |-> month, balance |-> balance + net,
                       income |-> sums.income, expenses |-> sums.expenses, net |-> net,
                       recurringNet |-> sums.recurringIncome - sums.recurringExpenses,
                       balanceMin |-> balanceMin + sums.incomeMin - sums.expMin,
                       balanceMax |-> balanceMax + sums.incomeMax - sums.expMax]
         IN  <<row>> \o monthsLoop_uncarried(Tail(axis), balance, row.balanceMin, row.balanceMax,
                                             scenario, sits, endMonth)

\* the loop over the months of the axis: the rows pushed from `axis` on
RECURSIVE monthsLoop(_, _, _, _, _, _, _)
monthsLoop(axis, balance, balanceMin, balanceMax, scenario, sits, endMonth) ==
    IF axis = <<>> THEN <<>>
    ELSE LET month == Head(axis)
             sums  == monthSums(month, scenario, sits, endMonth)
             net   == sums.income - sums.expenses
             row   == [month |-> month, balance |-> balance + net,
                       income |-> sums.income, expenses |-> sums.expenses, net |-> net,
                       recurringNet |-> sums.recurringIncome - sums.recurringExpenses,
                       balanceMin |-> balanceMin + sums.incomeMin - sums.expMin,
                       balanceMax |-> balanceMax + sums.incomeMax - sums.expMax]
         IN  <<row>> \o monthsLoop(Tail(axis), row.balance, row.balanceMin, row.balanceMax,
                                   scenario, sits, endMonth)

\* mutant: the axis ends one month late
simulateScenario_oneMore(scenario, sits) ==
    LET endMonth == addMonths(scenario.startMonth, scenario.durationMonths)
        axis     == monthsBetween(scenario.startMonth, endMonth)
    IN  monthsLoop(axis, scenario.initialBalance, scenario.initialBalance * Hundred,
                   scenario.initialBalance * Hundred, scenario, sits, endMonth)

simulateScenario(scenario, sits) ==
    LET endMonth == addMonths(scenario.startMonth, scenario.durationMonths - 1)
        axis     == monthsBetween(scenario.startMonth, endMonth)
    IN  monthsLoop(axis, scenario.initialBalance, scenario.initialBalance * Hundred,
                   scenario.initialBalance * Hundred, scenario, sits, endMonth)

\* Map.set: the value of a key that is present is replaced in place
MapSet(map, key, value) ==
    IF \E i \in 1..Len(map) : map[i].key = key
    THEN [i \in 1..Len(map) |-> IF map[i].key = key THEN [key |-> key, value |-> value] ELSE map[i]]
    ELSE Append(map, [key |-> key, value |-> value])

MapHas(map, key) == \E i \in 1..Len(map) : map[i].key = key

MapGet(map, key) == map[CHOOSE i \in 1..Len(map) : map[i].key = key].value

\* mutant: a scenario starts from the last balance of the scenario before it
RECURSIVE simulateAll_carried(_, _)
simulateAll_carried(scs, sits) ==
    IF scs = <<>> THEN <<>>
    ELSE LET scenario == scs[Len(scs)]
             result   == simulateAll_carried(SubSeq(scs, 1, Len(scs) - 1), sits)
             before   == IF result = <<>> THEN <<>> ELSE result[Len(result)].value
             from     == IF before = <<>> THEN scenario.initialBalance
                         ELSE before[Len(before)].balance
         IN  MapSet(result, scenario.id,
                    simulateScenario([scenario EXCEPT !.initialBalance = from], sits))

\* the Map after the loop over scenarios
RECURSIVE simulateAll(_, _)
simulateAll(scs, sits) ==
    IF scs = <<>> THEN <<>>
    ELSE LET scenario == scs[Len(scs)]
         IN  MapSet(simulateAll(SubSeq(scs, 1, Len(scs) - 1), sits),
                    scenario.id, simulateScenario(scenario, sits))

-----------------------------------------------------------------------------
(* Inputs of the simulation: the drawn stores, with situations whose        *)
(* effects carry every form of variance, one list in which situation s2     *)
(* is gone while entries still name it, and the two examples of the         *)
(* specification (2024-01 to 2024-03, initial balance 1000).                *)

VarianceForms ==
    {[none |-> TRUE],
     [variancePercent |-> 10],
     [variancePercent |-> 10, varianceDirection |-> "+"],
     [variancePercent |-> 10, varianceDirection |-> "-"],
     [variancePercent |-> 10, varianceDirection |-> "+-"]}

\* an effect with the optional fields of a variance form
WithVariance(effect, form) ==
    LET fields == DOMAIN form \ {"none"}
    IN  [f \in DOMAIN effect \cup fields |-> IF f \in fields THEN form[f] ELSE effect[f]]

SimSituations(form) ==
    << [id |-> "s1",
        effects |-> << WithVariance([id |-> "e1", type |-> "recurring", category |-> "income",
                                     amount |-> 500], form),
                       WithVariance([id |-> "e2", type |-> "one-time", category |-> "expense",
                                     amount |-> 900], form) >>],
       [id |-> "s2",
        effects |-> << WithVariance([id |-> "e3", type |-> "recurring", category |-> "expense",
                                     amount |-> 200], form),
                       WithVariance([id |-> "e4", type |-> "one-time", category |-> "income",
                                     amount |-> 300], form) >>] >>

DrawnSituations ==
    {SimSituations(form) : form \in VarianceForms}
        \cup {SubSeq(SampleSituations, 1, 1), WithoutE2}

Jan == <<2, 0, 2, 4, Hyphen, 0, 1>>

Mar == <<2, 0, 2, 4, Hyphen, 0, 3>>

\* recurring income 500 and recurring expense 200, active for the three months
RecurringExample ==
    [situations |-> << [id |-> "job",
                        effects |-> << [id |-> "salary", type |-> "recurring",
                                        category |-> "income", amount |-> 500],
                                       [id |-> "rent", type |-> "recurring",
                                        category |-> "expense", amount |-> 200] >>] >>,
     scenarios |-> << [id |-> "X", initialBalance |-> 1000, startMonth |-> Jan,
                       durationMonths |-> 3,
                       entries |-> << [id |-> 1, situationId |-> "job",
                                       startMonth |-> Jan, endMonth |-> Mar] >>,
                       effectEntries |-> <<>>] >>]

\* a one-time expense of 900 on a single entry over the three months
OneTimeExample ==
    [situations |-> << [id |-> "car",
                        effects |-> << [id |-> "purchase", type |-> "one-time",
                                        category |-> "expense", amount |-> 900] >>] >>,
     scenarios |-> << [id |-> "Y", initialBalance |-> 1000, startMonth |-> Jan,
                       durationMonths |-> 3,
                       entries |-> << [id |-> 1, situationId |-> "car",
                                       startMonth |-> Jan, endMonth |-> Mar] >>,
                       effectEntries |-> <<>>] >>]

InitSim ==
    /\ \/ /\ situations \in DrawnSituations
          /\ \/ \E axis \in DrawnAxes, entries \in DrawnEntries,
                    effectEntries \in DrawnEffectEntries :
                       scenarios = DrawnScenarios(axis, entries, effectEntries)
             \/ scenarios = <<>>
       \/ \E example \in {RecurringExample, OneTimeExample} :
             /\ situations = example.situations
             /\ scenarios = example.scenarios
    /\ activeScenarioId = ""
    /\ last = NoOp
    /\ rows = NoResult
    /\ months = <<>>
    /\ ranges = NoResult
    /\ gesture = NoResult
    /\ sync = NoResult

\* a render: rows is simulateAll(scenarios, situations)
SimulateAll ==
    /\ rows = NoResult
    /\ rows' = simulateAll(scenarios, situations)
    /\ UNCHANGED <<situations, scenarios, activeScenarioId, last, months, ranges, gesture, sync>>

NextSim == SimulateAll

SpecSim == InitSim /\ [][NextSim]_vars

-----------------------------------------------------------------------------
(* Calendar notions the claims are stated in, independent of addMonths.    *)

\* the number of the calendar month a well-formed token 'YYYY-MM' names
Ord(t) == (t[1] * 1000 + t[2] * 100 + t[3] * 10 + t[4]) * 12 + (t[6] * 10 + t[7]) - 1

WellFormed(t) ==
    /\ Len(t) = 7
    /\ t[5] = Hyphen
    /\ \A i \in {1, 2, 3, 4, 6, 7} : t[i] \in 0..9
    /\ (t[6] * 10 + t[7]) \in 1..12

\* the months a list of ranges (entries, overrides) covers, by rangeToMonths
ExpandAll(rs) == UNION {Range(rangeToMonths(rs[i].startMonth, rs[i].endMonth)) : i \in 1..Len(rs)}

\* ranges are pairwise disjoint, not adjacent, and none is empty
Canonical(rs) ==
    /\ \A i \in 1..Len(rs) :
          /\ WellFormed(rs[i].startMonth) /\ WellFormed(rs[i].endMonth)
          /\ Ord(rs[i].startMonth) <= Ord(rs[i].endMonth)
    /\ \A i, j \in 1..Len(rs) :
          i # j => \/ Ord(rs[i].endMonth) + 1 < Ord(rs[j].startMonth)
                   \/ Ord(rs[j].endMonth) + 1 < Ord(rs[i].startMonth)

-----------------------------------------------------------------------------
-----------------------------------------------------------------------------
(* The store before and after the commit that ran last, as the claims see  *)
(* it: sets of calendar months, computed from the records by Ord.          *)

Painted == last.op \in {"paintEntries", "paintEffectEntries"}

HasActive == find(scenarios, activeScenarioId) # NotFound

Before == find(last.before, activeScenarioId)

After == find(scenarios, activeScenarioId)

EntriesOf(sc, sid) == SelectSeq(sc.entries, LAMBDA e : e.situationId = sid)

OverridesOf(sc, sid, eid) ==
    SelectSeq(sc.effectEntries, LAMBDA e : e.situationId = sid /\ e.effectId = eid)

\* the months of the universe a list of ranges covers
Covered(rs) ==
    {m \in Universe : \E i \in 1..Len(rs) :
        Ord(rs[i].startMonth) <= Ord(m) /\ Ord(m) <= Ord(rs[i].endMonth)}

\* the active months of a situation, the disabled months of an effect
ActiveMonths(sc, sid) == Covered(EntriesOf(sc, sid))

DisabledMonths(sc, sid, eid) == Covered(OverridesOf(sc, sid, eid))

\* [startMonth, startMonth + durationMonths - 1]
Axis(sc) ==
    {m \in Universe : Ord(sc.startMonth) <= Ord(m)
                      /\ Ord(m) <= Ord(sc.startMonth) + sc.durationMonths - 1}

PaintedSet == Range(last.months)

SituationsIn(sc) == {sc.entries[i].situationId : i \in 1..Len(sc.entries)}

AllCanonical(sc) == \A sid \in SituationsIn(sc) : Canonical(EntriesOf(sc, sid))

\* the months of an override lie inside the entries of its situation
Inside(sc, o) == Covered(<<o>>) \subseteq ActiveMonths(sc, o.situationId)

AllInside(sc) == \A i \in 1..Len(sc.effectEntries) : Inside(sc, sc.effectEntries[i])

-----------------------------------------------------------------------------
(* C1: after paintEntries for a situation s of the active scenario, the     *)
(* entries of s are pairwise non-overlapping and non-adjacent and each has  *)
(* startMonth <= endMonth, whatever the entries of s were before; and when  *)
(* this held for every situation before a paint commit (paintEntries or     *)
(* paintEffectEntries), it holds for every situation after it.              *)
C1_EntriesCanonical ==
    (Painted /\ HasActive) =>
        /\ last.op = "paintEntries" => Canonical(EntriesOf(After, last.situationId))
        /\ AllCanonical(Before) => AllCanonical(After)

\* paintEntries ran on a situation whose entries overlapped or touched, and left it
\* with two entries
C1_Witness ==
    /\ last.op = "paintEntries"
    /\ HasActive
    /\ ~Canonical(EntriesOf(Before, last.situationId))
    /\ Len(EntriesOf(After, last.situationId)) = 2

-----------------------------------------------------------------------------
(* C2, as claimed: after every paint commit on a scenario, every month of  *)
(* every override of the scenario lies inside the entries of the           *)
(* override's situation.                                                   *)
C2_AllOverridesInside ==
    (Painted /\ HasActive) => AllInside(After)

(* C2, amended: after paintEntries for s the months of every override of s *)
(* lie inside the entries of s; after paintEffectEntries for (s, e), s     *)
(* having an active month, those of every override of (s, e) do; and when  *)
(* every override of the scenario lay inside its situation's entries       *)
(* before a paint commit, every override does after it.                    *)
C2_TargetOverridesInside ==
    (Painted /\ HasActive) =>
        /\ last.op = "paintEntries" =>
              \A i \in 1..Len(After.effectEntries) :
                  After.effectEntries[i].situationId = last.situationId
                      => Inside(After, After.effectEntries[i])
        /\ (last.op = "paintEffectEntries" /\ ActiveMonths(Before, last.situationId) # {}) =>
              \A i \in 1..Len(After.effectEntries) :
                  (/\ After.effectEntries[i].situationId = last.situationId
                   /\ After.effectEntries[i].effectId = last.effectId)
                      => Inside(After, After.effectEntries[i])
        /\ AllInside(Before) => AllInside(After)

\* paintEntries removed months on which an effect of the situation was disabled:
\* the override was cut down to the months that stay active
C2_Witness ==
    /\ last.op = "paintEntries"
    /\ last.mode = "remove"
    /\ HasActive
    /\ \E eid \in {"e1", "e2", "e3"} :
          /\ DisabledMonths(After, last.situationId, eid) # {}
          /\ DisabledMonths(After, last.situationId, eid)
                 # DisabledMonths(Before, last.situationId, eid)

-----------------------------------------------------------------------------
(* C4: paintEntries(s, P, mode) on the active scenario: with A the months  *)
(* of the entries of s before the commit, the months of the entries of s   *)
(* after it are (A \cup P) \cap Axis for add and (A \ P) \cap Axis for     *)
(* remove; no entry of s reaches outside the axis.                         *)
C4_PaintEntriesMonths ==
    (last.op = "paintEntries" /\ HasActive) =>
        LET A == ActiveMonths(Before, last.situationId)
        IN  /\ ActiveMonths(After, last.situationId) =
                  IF last.mode = "add" THEN (A \cup PaintedSet) \cap Axis(Before)
                  ELSE (A \ PaintedSet) \cap Axis(Before)
            /\ \A i \in 1..Len(After.entries) :
                  After.entries[i].situationId = last.situationId =>
                      /\ After.entries[i].startMonth \in Axis(After)
                      /\ After.entries[i].endMonth \in Axis(After)

\* months were added that reach beyond the axis, to entries that reached beyond it
\* already, and the situation is placed after the commit
C4_Witness ==
    /\ last.op = "paintEntries"
    /\ last.mode = "add"
    /\ HasActive
    /\ ~(PaintedSet \subseteq Axis(Before))
    /\ ~(ActiveMonths(Before, last.situationId) \subseteq Axis(Before))
    /\ ActiveMonths(After, last.situationId) # {}

-----------------------------------------------------------------------------
(* C5, as claimed: paintEffectEntries(s, e, P, mode) on the active         *)
(* scenario: with D the disabled months of (s, e) and A the active months  *)
(* of s before the commit, the disabled months of (s, e) after it are      *)
(* (D \ P) \cap A \cap Axis for add and (D \cup (P \cap A)) \cap A \cap    *)
(* Axis for remove.                                                        *)
C5_Formula ==
    LET D == DisabledMonths(Before, last.situationId, last.effectId)
        A == ActiveMonths(Before, last.situationId)
    IN  DisabledMonths(After, last.situationId, last.effectId) =
            IF last.mode = "add" THEN ((D \ PaintedSet) \cap A) \cap Axis(Before)
            ELSE ((D \cup (PaintedSet \cap A)) \cap A) \cap Axis(Before)

-----------------------------------------------------------------------------
(* What the rows of a scenario are expected to hold, written from the      *)
(* calendar (Ord) and the records, not from the loops of simulateScenario. *)

Simulated == rows # NoResult

RowsOf(sc) == MapGet(rows, sc.id)

RECURSIVE Sum(_)
Sum(seq) == IF seq = <<>> THEN 0 ELSE Head(seq) + Sum(Tail(seq))

Covers(r, m) == Ord(r.startMonth) <= Ord(m) /\ Ord(m) <= Ord(r.endMonth)

\* an override of the scenario disables the effect in month m
Disabled(sc, sid, eid, m) ==
    \E i \in 1..Len(sc.effectEntries) :
        /\ sc.effectEntries[i].situationId = sid
        /\ sc.effectEntries[i].effectId = eid
        /\ Covers(sc.effectEntries[i], m)

\* the effects of the situation an entry places (none when the situation is gone)
EffectsOf(entry) ==
    IF \E i \in 1..Len(situations) : situations[i].id = entry.situationId
    THEN situations[CHOOSE i \in 1..Len(situations) : situations[i].id = entry.situationId].effects
    ELSE <<>>

\* the sum of Value(effect) over the pairs (entry, effect) of the scenario that
\* satisfy Counts(entry, effect)
Total(sc, Counts(_, _), Value(_)) ==
    Sum([i \in 1..Len(sc.entries) |->
            LET effects == EffectsOf(sc.entries[i])
            IN  Sum([j \in 1..Len(effects) |->
                        IF Counts(sc.entries[i], effects[j]) THEN Value(effects[j]) ELSE 0])])

Amount(f) == f.amount

\* a recurring effect in a month its entry covers, unless an override disables it
RecurringIn(sc, m, category, e, f) ==
    /\ f.type = "recurring" /\ f.category = category
    /\ Covers(e, m)
    /\ ~Disabled(sc, e.situationId, f.id, m)

\* a one-time effect in the month its entry starts
OneTimeAtStart(m, category, e, f) ==
    f.type = "one-time" /\ f.category = category /\ e.startMonth = m

\* ... unless an override disables it
OneTimeIn(sc, m, category, e, f) ==
    OneTimeAtStart(m, category, e, f) /\ ~Disabled(sc, e.situationId, f.id, m)

AppliedIn(sc, m, category, e, f) ==
    RecurringIn(sc, m, category, e, f) \/ OneTimeIn(sc, m, category, e, f)

Balances(rs) == [i \in 1..Len(rs) |-> rs[i].balance]

-----------------------------------------------------------------------------
(* C6: in the rows of every scenario, net = income - expenses, and the     *)
(* balance of a row is the balance of the row before it (initialBalance    *)
(* for the first row) plus its net.                                        *)
C6_BalanceRecursion ==
    Simulated =>
        \A k \in 1..Len(scenarios) :
            LET rs == RowsOf(scenarios[k])
            IN  \A i \in 1..Len(rs) :
                    /\ rs[i].net = rs[i].income - rs[i].expenses
                    /\ rs[i].balance =
                           (IF i = 1 THEN scenarios[k].initialBalance ELSE rs[i - 1].balance)
                               + rs[i].net

\* a scenario of three rows whose nets are not zero and not all the same
C6_Witness ==
    /\ Simulated
    /\ \E k \in 1..Len(scenarios) :
          LET rs == RowsOf(scenarios[k])
          IN  /\ Len(rs) = 3
              /\ \A i \in 1..3 : rs[i].net # 0
              /\ rs[1].net # rs[2].net
              /\ rs[1].income > 0 /\ rs[1].expenses > 0

-----------------------------------------------------------------------------
(* C7, as claimed: a one-time effect contributes its amount to the row of  *)
(* the startMonth of every entry of its situation and to no other row: the *)
(* one-time part of the net of a row (net - recurringNet) is the sum of    *)
(* the one-time amounts of the entries that start in the month of the row; *)
(* the example gives balance 100 in all three rows.                        *)
C7_OneTimeAtEntryStart ==
    Simulated =>
        /\ \A k \in 1..Len(scenarios) :
              LET sc == scenarios[k]
                  rs == RowsOf(sc)
              IN  \A i \in 1..Len(rs) :
                      LET m == rs[i].month
                          incomeAtStart(e, f)  == OneTimeAtStart(m, "income", e, f)
                          expenseAtStart(e, f) == OneTimeAtStart(m, "expense", e, f)
                      IN  rs[i].net - rs[i].recurringNet =
                              Total(sc, incomeAtStart, Amount) - Total(sc, expenseAtStart, Amount)
        /\ scenarios = OneTimeExample.scenarios /\ situations = OneTimeExample.situations
              => Balances(RowsOf(scenarios[1])) = <<100, 100, 100>>

(* C7, amended: the same, unless an override disables the effect in the    *)
(* startMonth of the entry: then the entry contributes nothing.  (An entry *)
(* whose startMonth is not a month of the axis has no row to contribute    *)
(* to.)                                                                    *)
C7_OneTimeAtEntryStartUnlessDisabled ==
    Simulated =>
        /\ \A k \in 1..Len(scenarios) :
              LET sc == scenarios[k]
                  rs == RowsOf(sc)
              IN  \A i \in 1..Len(rs) :
                      LET m == rs[i].month
                          incomeIn(e, f)  == OneTimeIn(sc, m, "income", e, f)
                          expenseIn(e, f) == OneTimeIn(sc, m, "expense", e, f)
                      IN  rs[i].net - rs[i].recurringNet =
                              Total(sc, incomeIn, Amount) - Total(sc, expenseIn, Amount)
        /\ scenarios = OneTimeExample.scenarios /\ situations = OneTimeExample.situations
              => Balances(RowsOf(scenarios[1])) = <<100, 100, 100>>

\* two entries of a situation start in different months of the axis and its one-time
\* expense is paid in both rows, and in no third row
C7_Witness ==
    /\ Simulated
    /\ \E k \in 1..Len(scenarios) :
          LET sc == scenarios[k]
              rs == RowsOf(sc)
          IN  /\ Len(rs) = 3
              /\ \E a, b \in 1..Len(sc.entries) :
                    /\ sc.entries[a].situationId = "s1" /\ sc.entries[b].situationId = "s1"
                    /\ sc.entries[a].startMonth = rs[1].month
                    /\ sc.entries[a].endMonth = rs[1].month
                    /\ sc.entries[b].startMonth = rs[3].month
              /\ rs[1].net - rs[1].recurringNet = -900
              /\ rs[2].net - rs[2].recurringNet = 0
              /\ rs[3].net - rs[3].recurringNet = -900

-----------------------------------------------------------------------------
(* C8: a recurring effect contributes its amount to the income (category   *)
(* income) or the expenses (category expense) of the row of month m once   *)
(* for each entry of its situation that covers m, unless an override       *)
(* disables it for m, and to no other row; the example gives balances      *)
(* 1300, 1600, 1900.                                                       *)
C8_RecurringPerCoveringEntry ==
    Simulated =>
        /\ \A k \in 1..Len(scenarios) :
              LET sc == scenarios[k]
                  rs == RowsOf(sc)
              IN  \A i \in 1..Len(rs) :
                      LET m == rs[i].month
                          recurringIncome(e, f)  == RecurringIn(sc, m, "income", e, f)
                          recurringExpense(e, f) == RecurringIn(sc, m, "expense", e, f)
                          oneTimeIncome(e, f)    == OneTimeIn(sc, m, "income", e, f)
                          oneTimeExpense(e, f)   == OneTimeIn(sc, m, "expense", e, f)
                      IN  /\ rs[i].income = Total(sc, recurringIncome, Amount)
                                                + Total(sc, oneTimeIncome, Amount)
                          /\ rs[i].expenses = Total(sc, recurringExpense, Amount)
                                                  + Total(sc, oneTimeExpense, Amount)
                          /\ rs[i].recurringNet = Total(sc, recurringIncome, Amount)
                                                      - Total(sc, recurringExpense, Amount)
        /\ scenarios = RecurringExample.scenarios /\ situations = RecurringExample.situations
              => Balances(RowsOf(scenarios[1])) = <<1300, 1600, 1900>>

\* two entries of a situation cover the same month: its recurring income counts twice
\* in that row, and an override takes it out of another row the situation covers
C8_Witness ==
    /\ Simulated
    /\ \E k \in 1..Len(scenarios) :
          LET sc == scenarios[k]
              rs == RowsOf(sc)
          IN  /\ Len(rs) = 3
              /\ \E i, j \in 1..3 :
                    /\ rs[i].income = 1000
                    /\ rs[j].income = 0
                    /\ \E a \in 1..Len(sc.entries) :
                          sc.entries[a].situationId = "s1" /\ Covers(sc.entries[a], rs[j].month)
                    /\ Disabled(sc, "s1", "e1", rs[j].month)

-----------------------------------------------------------------------------
(* C9: with v = variancePercent / 100 (0 when absent) and the direction    *)
(* '+-' when absent, every applied income effect adds amount * (1 - v) to  *)
(* the balanceMin track and amount * (1 + v) to the balanceMax track, and  *)
(* every applied expense effect takes amount * (1 + v) from the balanceMin *)
(* track and amount * (1 - v) from the balanceMax track; with direction    *)
(* '+' only the (1 + v) side is scaled, with '-' only the (1 - v) side,    *)
(* the other side being the plain amount.  Tracks in hundredths.           *)
Percent(f) == IF "variancePercent" \in DOMAIN f THEN f.variancePercent ELSE 0

Direction(f) == IF "varianceDirection" \in DOMAIN f THEN f.varianceDirection ELSE "+-"

\* amount * (1 - v), or the plain amount when the direction is '+'
Lowered(f) == f.amount * (IF Direction(f) \in {"-", "+-"} THEN 100 - Percent(f) ELSE 100)

\* amount * (1 + v), or the plain amount when the direction is '-'
Raised(f) == f.amount * (IF Direction(f) \in {"+", "+-"} THEN 100 + Percent(f) ELSE 100)

C9_VarianceTracks ==
    Simulated =>
        \A k \in 1..Len(scenarios) :
            LET sc == scenarios[k]
                rs == RowsOf(sc)
            IN  \A i \in 1..Len(rs) :
                    LET m == rs[i].month
                        income(e, f)  == AppliedIn(sc, m, "income", e, f)
                        expense(e, f) == AppliedIn(sc, m, "expense", e, f)
                        prevMin == IF i = 1 THEN sc.initialBalance * 100 ELSE rs[i - 1].balanceMin
                        prevMax == IF i = 1 THEN sc.initialBalance * 100 ELSE rs[i - 1].balanceMax
                    IN  /\ rs[i].balanceMin =
                               prevMin + Total(sc, income, Lowered) - Total(sc, expense, Raised)
                        /\ rs[i].balanceMax =
                               prevMax + Total(sc, income, Raised) - Total(sc, expense, Lowered)

\* a one-sided direction on an income and an expense applied in the same row: one
\* track moves by the plain amounts, the other by the scaled ones
C9_Witness ==
    /\ Simulated
    /\ \E s \in 1..Len(situations) : \E j \in 1..Len(situations[s].effects) :
          /\ Direction(situations[s].effects[j]) = "+"
          /\ Percent(situations[s].effects[j]) > 0
    /\ \E k \in 1..Len(scenarios) :
          LET rs == RowsOf(scenarios[k])
          IN  /\ Len(rs) > 0
              /\ rs[1].income > 0 /\ rs[1].expenses > 0
              /\ rs[1].balanceMax - scenarios[k].initialBalance * 100
                     = 110 * rs[1].income - 100 * rs[1].expenses
              /\ rs[1].balanceMin - scenarios[k].initialBalance * 100
                     = 100 * rs[1].income - 110 * rs[1].expenses

-----------------------------------------------------------------------------
(* C10: the rows simulateAll returns for a scenario are the rows of that   *)
(* scenario simulated alone, whatever other scenarios are in the list, and *)
(* the call leaves the scenarios and the situations as they were.          *)
C10_Independent ==
    /\ [](Simulated =>
             \A k \in 1..Len(scenarios) :
                 RowsOf(scenarios[k]) =
                     MapGet(simulateAll(<<scenarios[k]>>, situations), scenarios[k].id))
    /\ [][UNCHANGED <<situations, scenarios>>]_vars

\* two scenarios simulated together, the second after a first one that ends on
\* another balance than the second starts from
C10_Witness ==
    /\ Simulated
    /\ Len(scenarios) = 2
    /\ Len(RowsOf(scenarios[1])) = 3
    /\ RowsOf(scenarios[1])[3].balance # scenarios[2].initialBalance
    /\ RowsOf(scenarios[2])[1].net # 0

-----------------------------------------------------------------------------
(* C11: for a scenario with durationMonths >= 1 the rows are exactly       *)
(* durationMonths many, row i (from 0) has month addMonths(startMonth, i), *)
(* and the months go up by one calendar month from row to row: none is     *)
(* missing or repeated.                                                    *)
C11_OneRowPerAxisMonth ==
    Simulated =>
        \A k \in 1..Len(scenarios) :
            LET sc == scenarios[k]
                rs == RowsOf(sc)
            IN  sc.durationMonths >= 1 =>
                    /\ Len(rs) = sc.durationMonths
                    /\ \A i \in 1..Len(rs) :
                          /\ rs[i].month = addMonths(sc.startMonth, i - 1)
                          /\ Ord(rs[i].month) = Ord(sc.startMonth) + i - 1
                    /\ \A i \in 1..(Len(rs) - 1) : StrLess(rs[i].month, rs[i + 1].month)

\* an axis of three months that runs over the turn of the year
C11_Witness ==
    /\ Simulated
    /\ \E k \in 1..Len(scenarios) :
          LET rs == RowsOf(scenarios[k])
          IN  /\ Len(rs) = 3
              /\ rs[1].month[4] # rs[3].month[4]
              /\ rs[3].month[6] = 0 /\ rs[3].month[7] = 1

-----------------------------------------------------------------------------
(* C12: a paint commit applied a second time (same target, same months,    *)
(* same mode, paintEntries or paintEffectEntries) leaves the active months *)
(* of every situation and the disabled months of every effect, in every    *)
(* scenario, as they were after the first application.                     *)

\* two stores agree on the active months of every situation and on the disabled
\* months of every effect
SameMonthSets(scs1, scs2) ==
    /\ Len(scs1) = Len(scs2)
    /\ \A k \in 1..Len(scs1) :
          /\ \A sid \in {"s1", "s2"} :
                ActiveMonths(scs1[k], sid) = ActiveMonths(scs2[k], sid)
          /\ \A se \in SampleEffects :
                DisabledMonths(scs1[k], se[1], se[2]) = DisabledMonths(scs2[k], se[1], se[2])

\* the store after the commit of `last` is applied to the store scs
Again(scs) ==
    IF last.op = "paintEntries"
    THEN paintEntriesSet(scs, activeScenarioId, last.situationId, last.months, last.mode)
    ELSE paintEffectEntriesSet(scs, activeScenarioId, last.situationId, last.effectId,
                               last.months, last.mode)

C12_Idempotent ==
    Painted => SameMonthSets(Again(scenarios), scenarios)

\* the first application changed the month sets (and the second has entries and
\* overrides of the target to rebuild)
C12_Witness ==
    /\ Painted
    /\ HasActive
    /\ ~SameMonthSets(last.before, scenarios)
    /\ ActiveMonths(After, last.situationId) # {}
    /\ \E eid \in {"e1", "e2", "e3"} : DisabledMonths(After, last.situationId, eid) # {}

-----------------------------------------------------------------------------
(* C15, as claimed: two paint commits on the same scenario with different  *)
(* targets (two situations, two (situation, effect) pairs, or a situation  *)
(* and one of its own effects) give the same active months of every        *)
(* situation and the same disabled months of every effect in either order. *)

\* the target of the commit that ran last
LastTarget ==
    IF last.op = "paintEntries" THEN SituationTarget(last.situationId)
    ELSE EffectTarget(last.situationId, last.effectId)

\* the commit that ran last and a commit (target, r, mode) give the same month sets
\* in either order
Commute(target, r, mode) ==
    LET painted == monthsBetween(r[1], r[2])
    IN  SameMonthSets(
            commitSet(scenarios, activeScenarioId, target, painted, mode),
            commitSet(commitSet(last.before, activeScenarioId, target, painted, mode),
                      activeScenarioId, LastTarget, last.months, last.mode))

C15_DifferentTargetsCommute ==
    Painted =>
        \A target \in PaintTargets \ {LastTarget}, r \in UniverseRanges, mode \in Modes :
            Commute(target, r, mode)

(* C15, amended: the same for two different situations, for two different  *)
(* (situation, effect) pairs, and for a situation and an effect of another *)
(* situation.  (A commit to a situation and a commit to one of its own     *)
(* effects can conflict.)                                                  *)
OwnEffect(t1, t2) == t1.kind # t2.kind /\ t1.situationId = t2.situationId

C15_UnrelatedTargetsCommute ==
    Painted =>
        \A target \in PaintTargets \ {LastTarget}, r \in UniverseRanges, mode \in Modes :
            ~OwnEffect(target, LastTarget) => Commute(target, r, mode)

\* a commit to a situation that changed its months, in a scenario in which another
\* situation is placed and has an override that a second commit can change
C15_Witness ==
    /\ last.op = "paintEntries"
    /\ last.situationId = "s1"
    /\ ActiveMonths(After, "s1") # ActiveMonths(Before, "s1")
    /\ ActiveMonths(After, "s2") # {}
    /\ DisabledMonths(After, "s2", "e3") # {}

\* ---- C17 ----

\* the entry places a situation that does not exist
DanglingEntry(e) == \A i \in 1..Len(situations) : situations[i].id # e.situationId

\* the override names an effect that its situation does not have
DanglingOverride(o) ==
    \E i \in 1..Len(situations) :
        /\ situations[i].id = o.situationId
        /\ \A j \in 1..Len(situations[i].effects) : situations[i].effects[j].id # o.effectId

\* seq without its k-th element
Without(seq, k) == SubSeq(seq, 1, k - 1) \o SubSeq(seq, k + 1, Len(seq))

Flat(sc, rs) ==
    \A i \in 1..Len(rs) :
        /\ rs[i].balance = sc.initialBalance
        /\ rs[i].income = 0 /\ rs[i].expenses = 0 /\ rs[i].net = 0

\* C17: simulateScenario gives rows whatever the references: a scenario without
\* entries has balance = initialBalance and income = expenses = net = 0 in every
\* row; an entry whose situationId matches no situation, and an override whose
\* effectId matches no effect of its situation, leave every row as it is computed
\* without that entry or override.
C17_DanglingInert ==
    Simulated =>
        \A k \in 1..Len(scenarios) :
            LET sc == scenarios[k]
                rs == RowsOf(sc)
            IN  /\ sc.entries = <<>> => Flat(sc, rs)
                /\ \A i \in 1..Len(sc.entries) :
                       DanglingEntry(sc.entries[i]) =>
                           rs = simulateScenario([sc EXCEPT !.entries = Without(@, i)], situations)
                /\ \A j \in 1..Len(sc.effectEntries) :
                       DanglingOverride(sc.effectEntries[j]) =>
                           rs = simulateScenario([sc EXCEPT !.effectEntries = Without(@, j)],
                                                 situations)

\* rows of a scenario that has an entry of a missing situation over axis months
\* next to an entry that counts, and rows of a scenario with an override of a
\* missing effect over months its situation is active in
C17_Witness ==
    /\ Simulated
    /\ \E k \in 1..Len(scenarios) :
           LET sc == scenarios[k]
           IN  /\ RowsOf(sc)[1].income > 0
               /\ \E i \in 1..Len(sc.entries) :
                      DanglingEntry(sc.entries[i]) /\ Covers(sc.entries[i], sc.startMonth)
               /\ \E j \in 1..Len(sc.effectEntries) :
                      /\ DanglingOverride(sc.effectEntries[j])
                      /\ Covers(sc.effectEntries[j], sc.startMonth)

\* ---- C18 ----

AxisEnd(sc) == addMonths(sc.startMonth, sc.durationMonths - 1)

\* a range cut to the axis of the scenario
ClipRange(sc, r) ==
    [r EXCEPT !.startMonth = IF StrLess(@, sc.startMonth) THEN sc.startMonth ELSE @,
              !.endMonth   = IF StrLess(AxisEnd(sc), @) THEN AxisEnd(sc) ELSE @]

OnAxis(sc, r) == StrLeq(r.startMonth, AxisEnd(sc)) /\ StrLeq(sc.startMonth, r.endMonth)

ClipAll(sc, seq) ==
    LET kept == SelectSeq(seq, LAMBDA r : OnAxis(sc, r))
    IN  [i \in 1..Len(kept) |-> ClipRange(sc, kept[i])]

\* the scenario with every entry and override clipped to its axis
Clipped(sc) ==
    [sc EXCEPT !.entries = ClipAll(sc, @), !.effectEntries = ClipAll(sc, @)]

\* C18: the months of entries and overrides outside the axis are inert: the rows
\* of a scenario are the rows of the scenario with every entry and every
\* override clipped to [startMonth, startMonth + durationMonths - 1], those
\* wholly outside removed.
C18_OutOfAxisInert ==
    Simulated =>
        \A k \in 1..Len(scenarios) :
            scenarios[k].durationMonths >= 1 =>
                RowsOf(scenarios[k]) = simulateScenario(Clipped(scenarios[k]), situations)

\* an entry that starts before the axis and reaches into it
StartsBefore(sc, e) == StrLess(e.startMonth, sc.startMonth) /\ OnAxis(sc, e)

\* the rows of a scenario that has an entry starting before the axis, whose
\* situation has a one-time effect
C18_Witness ==
    /\ Simulated
    /\ \E k \in 1..Len(scenarios) :
           \E i \in 1..Len(scenarios[k].entries) :
               LET e == scenarios[k].entries[i]
               IN  /\ StartsBefore(scenarios[k], e)
                   /\ \E j \in 1..Len(EffectsOf(e)) : EffectsOf(e)[j].type = "one-time"
                   /\ RowsOf(scenarios[k])[1].expenses = 0

\* the rows agree with those of the clipped scenario when no entry starts before the axis
C18_InertWhenStartsInside ==
    Simulated =>
        \A k \in 1..Len(scenarios) :
            (/\ scenarios[k].durationMonths >= 1
             /\ \A i \in 1..Len(scenarios[k].entries) :
                    ~StartsBefore(scenarios[k], scenarios[k].entries[i]))
                => RowsOf(scenarios[k]) = simulateScenario(Clipped(scenarios[k]), situations)

-----------------------------------------------------------------------------
(* The paint gesture as the claims see it.                                 *)

\* the scenario the grid shows
Shown == find(scenarios, activeScenarioId)

\* the month is committed-active for the target: the situation is active in it
\* and, for an effect row, the effect is not disabled in it
CommittedActive(sc, target, m) ==
    /\ m \in ActiveMonths(sc, target.situationId)
    /\ target.kind = "effect" =>
           m \notin DisabledMonths(sc, target.situationId, target.effectId)

\* a step that starts a gesture (startPaint), a step that commits one
GestureStarts == gesture'.started = gesture.started + 1

GestureCommits == Len(gesture'.log) = Len(gesture.log) + 1

Painting == gesture.state.isPainting

\* the [startMonth, endMonth] pairs of entries
RangesOf(es) == [k \in 1..Len(es) |-> <<es[k].startMonth, es[k].endMonth>>]

\* a commit of the gesture log that paints the one month m of the situation row
SingleCell(c, sid, m) ==
    c.op = "paintEntries" /\ c.target = Some(SituationTarget(sid)) /\ c.months = <<m>>

\* ---- C13 ----

ModeAtMouseDown ==
    GestureStarts =>
        LET st == gesture'.state
        IN  st.paintMode = IF CommittedActive(Shown, st.paintTarget[1], st.paintAnchor[1])
                           THEN "remove" ELSE "add"

ModeKept ==
    /\ ~GestureStarts =>
           /\ gesture'.state.paintMode = gesture.state.paintMode
           /\ gesture'.refs.paintMode = gesture.refs.paintMode
    /\ GestureCommits => gesture'.log[Len(gesture'.log)].mode = gesture.state.paintMode

Toggles ==
    \A sid \in {"s1", "s2"}, m \in Universe :
        (/\ gesture.replaced = 0
         /\ Len(gesture.log) = 2
         /\ SingleCell(gesture.log[1], sid, m)
         /\ SingleCell(gesture.log[2], sid, m)) =>
            LET before == find(gesture.log[1].before, activeScenarioId)
                between == find(gesture.log[1].after, activeScenarioId)
            IN  /\ RangesOf(EntriesOf(Shown, sid)) = RangesOf(EntriesOf(before, sid))
                /\ EntriesOf(before, sid) = <<>> =>
                       /\ RangesOf(EntriesOf(between, sid)) = << <<m, m>> >>
                       /\ EntriesOf(Shown, sid) = <<>>

\* C13: the mode of a paint gesture is fixed at mouse-down: remove if the anchor
\* month is committed-active for the target (for an effect row: the situation is
\* active and the effect is not disabled), add otherwise; no later step of the
\* gesture changes it and the commit uses it; hence two single-cell gestures that
\* follow one another on the same month of a situation bring its entries back to
\* where they were (no entries, then the one-month entry, then no entries).
C13_ModeFixedAtMouseDown ==
    /\ [](Toggles /\ gesture.refs.paintMode = gesture.state.paintMode)
    /\ [][ModeAtMouseDown /\ ModeKept]_vars

\* two single-cell gestures on the same month of s1, which had no entries: the
\* first added, the second removed
C13_Witness ==
    /\ gesture.replaced = 0
    /\ Len(gesture.log) = 2
    /\ \E m \in Universe :
          SingleCell(gesture.log[1], "s1", m) /\ SingleCell(gesture.log[2], "s1", m)
    /\ EntriesOf(find(gesture.log[1].before, activeScenarioId), "s1") = <<>>
    /\ gesture.log[1].mode = "add"
    /\ gesture.log[2].mode = "remove"

\* ---- C14 ----

\* a step that applies a snapshot
Replaces == gesture'.replaced = gesture.replaced + 1

\* C14: the paint gesture is a two-state machine (Idle, Painting): a mouse-up in
\* Idle commits nothing, a mouse-down on a paintable cell enters Painting,
\* entering cells while Painting leaves the entries and overrides of the store
\* unchanged, the mouse-up that ends Painting calls exactly one of paintEntries
\* and paintEffectEntries exactly once and returns to Idle, so that every gesture
\* that was started has led to exactly one commit once the machine is Idle again
\* (and to none yet while it is Painting).
C14_EveryGestureCommits ==
    gesture.started = Len(gesture.log) + (IF Painting THEN 1 ELSE 0)

\* Idle again after a mouse-down, a second mouse-down on another cell, and a mouse-up
C14_Witness ==
    /\ ~Painting
    /\ gesture.started = 2
    /\ Len(gesture.log) = 1
    /\ gesture.replaced = 0

\* the steps of the two-state machine, one commit for each time Painting is left
C14_TwoStates ==
    /\ [](/\ gesture.refs.isPainting = Painting
          /\ Painting <=> gesture.refs.paintTarget # Null
          /\ Painting <=> gesture.refs.paintAnchor # Null
          /\ Painting <=> gesture.refs.paintCurrent # Null)
    /\ [][/\ (~Painting /\ ~Replaces) => UNCHANGED <<situations, scenarios, last>>
          /\ GestureStarts => gesture'.state.isPainting
          /\ (Painting /\ gesture'.state.isPainting /\ ~Replaces) =>
                 UNCHANGED <<situations, scenarios, last>>
          /\ (Painting /\ ~gesture'.state.isPainting) =>
                 /\ GestureCommits
                 /\ last'.op \in {"paintEntries", "paintEffectEntries"}
                 /\ last'.before = scenarios
          /\ GestureCommits => Painting /\ ~gesture'.state.isPainting]_vars

\* ---- C16 ----

\* the store holds the snapshot and nothing else: the scenarios and situations of
\* the snapshot in its order, a missing effectEntries as the empty list, a blank
\* category as the default one
SnapshotApplied(data, sits, scs) ==
    /\ Len(sits) = Len(data.situations)
    /\ \A k \in 1..Len(sits) :
          /\ sits[k].id = data.situations[k].id
          /\ sits[k].effects = data.situations[k].effects
          /\ sits[k].category \notin {"", " "}
    /\ Len(scs) = Len(data.scenarios)
    /\ \A k \in 1..Len(scs) :
          LET d == data.scenarios[k]
          IN  /\ \A f \in DOMAIN d : scs[k][f] = d[f]
              /\ "effectEntries" \notin DOMAIN d => scs[k].effectEntries = <<>>
              /\ DOMAIN scs[k] = DOMAIN d \cup {"effectEntries"}

\* the month sets a commit leaves for its target, from the scenario cur it runs on
CommitFrom(cur, aft, c) ==
    LET t == c.target[1]
        A == ActiveMonths(cur, t.situationId)
        D == DisabledMonths(cur, t.situationId, t.effectId)
        M == Range(c.months)
    IN  IF t.kind = "situation"
        THEN ActiveMonths(aft, t.situationId) =
                 (IF c.mode = "add" THEN A \cup M ELSE A \ M) \cap Axis(cur)
        ELSE IF A = {} THEN aft = cur
        ELSE DisabledMonths(aft, t.situationId, t.effectId) =
                 (IF c.mode = "add" THEN D \ M ELSE D \cup (M \cap A)) \cap Axis(cur) \cap A

\* C16: a snapshot applied with replaceData while a paint gesture is in flight is
\* a full transaction boundary: after the step the situations and scenarios of
\* the store are the normalized snapshot, nothing of the replaced state merged
\* in, the gesture is as it was, and the commit at release is computed from the
\* entries and overrides the active scenario has when the commit runs.
C16_ReplaceIsBoundary ==
    [][/\ Replaces =>
              /\ SnapshotApplied(gesture'.snapshot[1], situations', scenarios')
              /\ find(scenarios', activeScenarioId') # NotFound
              /\ gesture'.state = gesture.state /\ gesture'.refs = gesture.refs
       /\ (GestureCommits /\ Shown # NotFound) =>
              /\ CommitFrom(Shown, find(scenarios', activeScenarioId),
                            gesture'.log[Len(gesture'.log)])
              /\ \A k \in 1..Len(scenarios) :
                     scenarios[k].id # activeScenarioId => scenarios'[k] = scenarios[k]]_vars

\* a gesture that started on the entry [U1, U2] of s1 in mode remove, released
\* after the snapshot with the entry [U3, U3] replaced the store: the commit ran
\* on the snapshot
C16_Witness ==
    /\ gesture.log # <<>>
    /\ LET c == gesture.log[Len(gesture.log)]
       IN  /\ c.inFlight
           /\ c.mode = "remove"
           /\ SnapshotApplied(gesture.snapshot[1], situations, c.before)
           /\ c.after # c.before

-----------------------------------------------------------------------------
(* The sync server and its clients as the claims see them.                 *)

\* the PUTs of a profile answered with 200, oldest first (their data)
Accepted(p) == sync.accepted[p]

\* a step in which the server accepts a PUT of the profile
Accepts(p) == Len(sync'.accepted[p]) = Len(sync.accepted[p]) + 1

\* the request a step of the server handles
Handled == CHOOSE r \in sync.requests : r \notin sync'.requests

LastWriterWins(p) ==
    /\ sync.states[p].version = sync.start[p] + Len(Accepted(p))
    /\ Accepted(p) # <<>> => sync.states[p].data = Accepted(p)[Len(Accepted(p))]

AcceptedOnce(p) ==
    Accepts(p) =>
        /\ sync'.states[p].version = sync.states[p].version + 1
        /\ sync'.states[p].data = Handled.body.data
        /\ \A c \in Clients :
              IF c \in sync.subscribers[p]
              THEN /\ Len(sync'.streams[c]) = Len(sync.streams[c]) + 1
                   /\ LET packet == sync'.streams[c][Len(sync'.streams[c])]
                      IN  /\ packet.version = sync'.states[p].version
                          /\ packet.data = Handled.body.data
                          /\ Handled.sender \in Clients => packet.clientId = Handled.sender
              ELSE sync'.streams[c] = sync.streams[c]

\* ---- C19 ----

\* C19: the sync server is last-writer-wins on whole snapshots: every accepted
\* PUT replaces the stored data by the data of the request and sets version to
\* the previous version + 1, whatever baseVersion was sent; after any sequence of
\* PUTs the stored data is that of the last accepted PUT and the version is the
\* starting version plus the number of accepted PUTs; each accepted PUT is
\* broadcast once, with its new version and the clientId of the sender.
C19_LastWriterWins ==
    /\ [](\A p \in Profiles : LastWriterWins(p))
    /\ [][\A p \in Profiles : AcceptedOnce(p)]_vars

\* server.js has answered a PUT with 400 and holds its data under a new version
C19_Witness ==
    /\ sync.variant = "server.js"
    /\ sync.states["default"].version = sync.start["default"] + 1
    /\ Accepted("default") = <<>>
    /\ sync.states["default"].data = D2
    /\ sync.files["default"] = Null

\* the profile-aware server is last-writer-wins for each profile
C19_ProfilesLastWriterWins ==
    /\ [](sync.variant = "profiles" => \A p \in Profiles : LastWriterWins(p))
    /\ [][\A p \in Profiles : AcceptedOnce(p)]_vars

\* ---- C20 ----

\* a step in which the client takes the next packet of its event stream
Receives(c) == sync.streams[c] # <<>> /\ sync'.streams[c] = Tail(sync.streams[c])

\* a step in which the client handles the answer of GET /api/state
Boots(c) == sync.clients[c].phase = "got" /\ sync'.clients[c].phase # "got"

\* what the claim lets the client do with a snapshot it receives
Guarded(c, payload) ==
    LET before == sync.clients[c]
        after  == sync'.clients[c]
        own    == payload.clientId = c
        newer  == payload.version > before.latestVersion
    IN  /\ after.data # before.data => ~own /\ newer /\ after.data = payload.data
        /\ own => /\ after.data = before.data
                  /\ after.latestVersion = Max(before.latestVersion, payload.version)
        /\ (~own /\ ~newer) => /\ after.data = before.data
                             /\ after.latestVersion = before.latestVersion

\* C20: a sync client applies a snapshot it receives to its store only if the
\* snapshot does not carry the client's own clientId and its version is greater
\* than the client's latestVersion; a broadcast that carries its own clientId
\* only raises latestVersion to max(latestVersion, version); latestVersion never
\* decreases.
C20_AppliesOnlyNewerForeign ==
    [][\A c \in Clients :
          /\ Receives(c) => Guarded(c, Head(sync.streams[c]))
          /\ Boots(c) => Guarded(c, sync.clients[c].remote)
          /\ sync'.clients[c].latestVersion >= sync.clients[c].latestVersion]_vars

\* the clients have received a broadcast of their own, a snapshot that was not
\* newer and one they applied; c1 holds the version of its own push
C20_Witness ==
    /\ {"own", "old", "applied"} \subseteq sync.seen
    /\ sync.clients["c1"].latestVersion > sync.start["default"]
    /\ sync.clients["c1"].phase = "connected"
    /\ sync.streams["c1"] = <<>>

\* ---- C21 ----

\* the records of a list that do not belong to a situation / to a pair
NotOf(recs, sid) == SelectSeq(recs, LAMBDA e : e.situationId # sid)

NotOfPair(recs, sid, eid) ==
    SelectSeq(recs, LAMBDA e : ~(e.situationId = sid /\ e.effectId = eid))

\* every scenario but the active one is the same record after the step
OthersKept ==
    /\ Len(scenarios') = Len(scenarios)
    /\ \A i \in 1..Len(scenarios) :
          scenarios[i].id # activeScenarioId => scenarios'[i] = scenarios[i]

\* what a paintEntries step for situation sid leaves alone
EntriesFrame(sid) ==
    /\ OthersKept
    /\ situations' = situations
    /\ activeScenarioId' = activeScenarioId
    /\ HasActive =>
          LET before == find(scenarios, activeScenarioId)
              after  == find(scenarios', activeScenarioId)
          IN  /\ NotOf(after.entries, sid) = NotOf(before.entries, sid)
              /\ NotOf(after.effectEntries, sid) = NotOf(before.effectEntries, sid)

\* what a paintEffectEntries step for the pair (sid, eid) leaves alone
EffectEntriesFrame(sid, eid) ==
    /\ OthersKept
    /\ situations' = situations
    /\ activeScenarioId' = activeScenarioId
    /\ HasActive =>
          LET before == find(scenarios, activeScenarioId)
              after  == find(scenarios', activeScenarioId)
          IN  /\ after.entries = before.entries
              /\ NotOfPair(after.effectEntries, sid, eid)
                     = NotOfPair(before.effectEntries, sid, eid)

\* C21: a paint commit changes only the records of its target.  paintEntries for
\* situation s leaves unchanged the entries (ids included) and the overrides of
\* every other situation of the active scenario, every other scenario, the
\* situations list and activeScenarioId; paintEffectEntries for (s, e) leaves
\* unchanged all entries of the scenario and the overrides of every other
\* (situation, effect) pair.
C21_PaintFrame ==
    [][/\ last'.op = "paintEntries" => EntriesFrame(last'.situationId)
       /\ last'.op = "paintEffectEntries"
             => EffectEntriesFrame(last'.situationId, last'.effectId)]_vars

\* paintEntries rewrote the entries and pruned an override of s1 beside an entry
\* of s2 in the active scenario
C21_Witness ==
    /\ last.op = "paintEntries" /\ last.situationId = "s1" /\ HasActive
    /\ EntriesOf(Before, "s2") # <<>>
    /\ EntriesOf(After, "s1") # EntriesOf(Before, "s1")
    /\ NotOf(Before.effectEntries, "s2") # NotOf(After.effectEntries, "s2")

-----------------------------------------------------------------------------
(* Specification of the calendar functions: monthsBetween on a drawn pair  *)
(* of tokens, addMonths forth and back by a drawn number of months.        *)

\* largest number of months added and taken back
MaxShift == 13

\* the token 'YYYY-MM' of the calendar month number k (inverse of the reading
\* of a token as year * 12 + month - 1)
TokenOf(k) ==
    LET year == k \div 12
        mon  == (k % 12) + 1
    IN  <<year \div 1000, (year \div 100) % 10, (year \div 10) % 10, year % 10,
          Hyphen, mon \div 10, mon % 10>>

EarlyStart == <<0, 0, 9, 9, Hyphen, 1, 1>>    \* '0099-11'

\* tokens of the years 0099 and 0100, written out
EarlyTokens == {EarlyStart, <<0, 0, 9, 9, Hyphen, 1, 2>>, <<0, 1, 0, 0, Hyphen, 0, 1>>}

\* start and end are drawn from the same group of tokens
CalendarTokens == {MonthsUniverse, EarlyTokens}

InitCalendar ==
    /\ \E tokens \in CalendarTokens :
          \E start \in tokens, end \in tokens, n \in (-MaxShift)..MaxShift :
             last = [op |-> "init", start |-> start, end |-> end, n |-> n]
    /\ months = <<>>
    /\ ranges = NoResult
    /\ situations = <<>>
    /\ scenarios = <<>>
    /\ activeScenarioId = ""
    /\ rows = <<>>
    /\ gesture = NoResult
    /\ sync = NoResult

CallMonthsBetween ==
    /\ last.op = "init"
    /\ months' = rangeToMonths(last.start, last.end)
    /\ last' = [last EXCEPT !.op = "monthsBetween"]
    /\ UNCHANGED <<ranges, situations, scenarios, activeScenarioId, rows, gesture, sync>>

CallAddMonths ==
    /\ last.op = "init"
    /\ ranges' = addMonths(last.start, last.n)
    /\ last' = [last EXCEPT !.op = "addMonths"]
    /\ UNCHANGED <<months, situations, scenarios, activeScenarioId, rows, gesture, sync>>

CallAddMonthsBack ==
    /\ last.op = "addMonths"
    /\ ranges' = addMonths(ranges, -last.n)
    /\ last' = [last EXCEPT !.op = "addMonthsBack"]
    /\ UNCHANGED <<months, situations, scenarios, activeScenarioId, rows, gesture, sync>>

NextCalendar == CallMonthsBetween \/ CallAddMonths \/ CallAddMonthsBack

SpecCalendar == InitCalendar /\ [][NextCalendar]_vars

\* ---- C22 ----

\* the calendar months m with start <= m <= end, in increasing order
CalendarMonths(start, end) ==
    IF Ord(start) > Ord(end) THEN <<>>
    ELSE [i \in 1..(Ord(end) - Ord(start) + 1) |-> TokenOf(Ord(start) + i - 1)]

\* the year of a token has four digits and no leading zero
FourDigitYear(t) == WellFormed(t) /\ t[1] # 0

\* monthsBetween returned exactly the calendar months of [start, end]
BetweenExact ==
    last.op = "monthsBetween" => months = CalendarMonths(last.start, last.end)

\* addMonths forth and back returned the token it started from
BackExact == last.op = "addMonthsBack" => ranges = last.start

\* C22: for well-formed month tokens, monthsBetween(start, end) (and
\* rangeToMonths) returns in increasing order exactly the calendar months m with
\* start <= m <= end, each one calendar month after the previous one also across
\* a year boundary, and the empty list when start > end; and
\* addMonths(addMonths(m, n), -n) = m for every integer n.
C22_CalendarMonths ==
    (WellFormed(last.start) /\ WellFormed(last.end)) => (BetweenExact /\ BackExact)

\* monthsBetween stopped after the first month of a range of three months that
\* starts in the year 0099
C22_Witness ==
    /\ last.op = "monthsBetween"
    /\ last.start = EarlyStart
    /\ Ord(last.end) = Ord(last.start) + 2
    /\ months = <<EarlyStart>>

\* the claim holds for tokens of the years 1000 and later: a range across the
\* year boundary 2024/2025 is returned whole, 13 months forth and back return
\* to the start
C22_FourDigitYears ==
    (FourDigitYear(last.start) /\ FourDigitYear(last.end)) => (BetweenExact /\ BackExact)

\* ---- C23 ----

\* the effect ids of the overrides a scenario holds for a situation
OverriddenEffects(sc, sid) ==
    {sc.effectEntries[i].effectId :
        i \in {j \in 1..Len(sc.effectEntries) : sc.effectEntries[j].situationId = sid}}

\* the active scenario after painting the range r active again for the situation
\* of the last commit
PaintedAgain(r) ==
    find(paintEntriesSet(scenarios, activeScenarioId, last.situationId,
                         monthsBetween(r[1], r[2]), "add"),
         activeScenarioId)

\* C23: after paintEntries for situation s, for every effect e of s that had
\* overrides, the disabled-month set of (s, e) equals its disabled-month set
\* before the commit intersected with the new active-month set of s; so a month
\* that is removed from s and painted active again later has every effect of s
\* enabled.
C23_OverridesPruned ==
    (last.op = "paintEntries" /\ HasActive) =>
        LET s == last.situationId
        IN  /\ \A e \in OverriddenEffects(Before, s) :
                  DisabledMonths(After, s, e)
                      = DisabledMonths(Before, s, e) \cap ActiveMonths(After, s)
            /\ last.mode = "remove" =>
                  \A r \in UniverseRanges, e \in OverriddenEffects(Before, s) :
                      DisabledMonths(PaintedAgain(r), s, e) \cap PaintedSet = {}

\* a remove commit on s1 dropped one disabled month of an effect and kept another
C23_Witness ==
    /\ last.op = "paintEntries" /\ last.mode = "remove" /\ last.situationId = "s1"
    /\ HasActive
    /\ \E e \in OverriddenEffects(Before, "s1") :
          /\ DisabledMonths(After, "s1", e) # {}
          /\ DisabledMonths(After, "s1", e) # DisabledMonths(Before, "s1", e)
          /\ DisabledMonths(Before, "s1", e) \cap PaintedSet \cap Axis(Before) # {}

\* ---- C28 ----

\* every effect has amount >= 0 and variancePercent in [0, 100]
VarianceInRange ==
    \A s \in 1..Len(situations) : \A j \in 1..Len(situations[s].effects) :
        /\ situations[s].effects[j].amount >= 0
        /\ Percent(situations[s].effects[j]) \in 0..100

One(f) == 1

\* the number of effects with a variance applied in the first i rows
VariedUpTo(sc, rs, i) ==
    Sum([j \in 1..i |->
            LET varied(e, f) == /\ Percent(f) > 0
                                /\ \/ AppliedIn(sc, rs[j].month, "income", e, f)
                                   \/ AppliedIn(sc, rs[j].month, "expense", e, f)
            IN  Total(sc, varied, One)])

\* C28: when every effect has amount >= 0 and variancePercent in [0, 100], every
\* row of simulateScenario satisfies balanceMin <= balance <= balanceMax, the
\* three tracks start from the same initialBalance, and balanceMin = balance =
\* balanceMax in every row when no applied effect has a variance.  (balanceMin
\* and balanceMax in hundredths.)
C28_TracksOrdered ==
    (Simulated /\ VarianceInRange) =>
        \A k \in 1..Len(scenarios) :
            LET sc == scenarios[k]
                rs == RowsOf(sc)
            IN  \A i \in 1..Len(rs) :
                    /\ rs[i].balanceMin <= rs[i].balance * Hundred
                    /\ rs[i].balance * Hundred <= rs[i].balanceMax
                    /\ i = 1 =>
                          LET income(e, f)  == AppliedIn(sc, rs[1].month, "income", e, f)
                              expense(e, f) == AppliedIn(sc, rs[1].month, "expense", e, f)
                              start         == sc.initialBalance * Hundred
                          IN  /\ rs[1].balance = sc.initialBalance + rs[1].net
                              /\ rs[1].balanceMin = start + Total(sc, income, Lowered)
                                                        - Total(sc, expense, Raised)
                              /\ rs[1].balanceMax = start + Total(sc, income, Raised)
                                                        - Total(sc, expense, Lowered)
                    /\ VariedUpTo(sc, rs, i) = 0 =>
                          /\ rs[i].balanceMin = rs[i].balance * Hundred
                          /\ rs[i].balanceMax = rs[i].balance * Hundred

\* a scenario whose first row applies effects without a variance only, the three
\* tracks being equal and away from the initial balance, and whose last row lies
\* strictly between a lower and an upper track
C28_Witness ==
    /\ Simulated /\ VarianceInRange
    /\ \E k \in 1..Len(scenarios) :
          LET sc == scenarios[k]
              rs == RowsOf(sc)
          IN  /\ Len(rs) = 3
              /\ VariedUpTo(sc, rs, 1) = 0
              /\ rs[1].balance # sc.initialBalance
              /\ rs[1].balanceMin = rs[1].balance * Hundred
              /\ rs[1].balanceMax = rs[1].balance * Hundred
              /\ rs[3].balanceMin < rs[3].balance * Hundred
              /\ rs[3].balance * Hundred < rs[3].balanceMax

\* ---- C24 ----

\* the calendar months of [min(a, b), max(a, b)]
MonthsSpanned(a, b) ==
    IF Ord(a) <= Ord(b) THEN CalendarMonths(a, b) ELSE CalendarMonths(b, a)

\* the commit of the log was called with the months between the anchor and the
\* last cell entered on the row of the target
ExactRange(c) == c.months = MonthsSpanned(c.anchor[1], c.current[1])

\* C24: the commit issued at release is called with exactly the months of
\* [min(anchor, current), max(anchor, current)], where anchor is the cell of the
\* mouse-down and current is the last cell entered on the row of the gesture's
\* target (cells of other rows are ignored), with the target and the mode chosen
\* at mouse-down; this holds for every interleaving of the mouse events with the
\* post-render effects that copy the gesture state into the refs read by the
\* mouse-up handler.
C24_ReleaseRange ==
    [][GestureCommits =>
          LET c == gesture'.log[Len(gesture'.log)]
          IN  /\ c.anchor = gesture.state.paintAnchor
              /\ c.current = gesture.state.paintCurrent
              /\ c.target = gesture.state.paintTarget
              /\ c.mode = gesture.state.paintMode
              /\ ExactRange(c)]_vars

\* a gesture anchored on the first month of the row of s1 entered the third month
\* and was released before the effect of that render ran: the commit was called
\* with the first month alone
C24_Witness ==
    \E k \in 1..Len(gesture.log) :
        LET c == gesture.log[k]
        IN  /\ c.target = Some(SituationTarget("s1"))
            /\ c.anchor = Some(U(1))
            /\ c.current = Some(U(3))
            /\ c.months = <<U(1)>>

\* when the effects of the last render have run before the release, the commit is
\* called with exactly that range, target and mode
C24_RangeWhenEffectsRan ==
    [][(GestureCommits /\ gesture.refs = gesture.state) =>
          LET c == gesture'.log[Len(gesture'.log)]
          IN  /\ c.anchor = gesture.state.paintAnchor
              /\ c.current = gesture.state.paintCurrent
              /\ c.target = gesture.state.paintTarget
              /\ c.mode = gesture.state.paintMode
              /\ ExactRange(c)]_vars

\* ---- C27 ----

\* the active scenario after the commit a release in this state makes
Released ==
    LET refs    == gesture.refs
        sorted  == sortMonths(refs.paintAnchor[1], refs.paintCurrent[1])
        painted == monthsBetween(sorted[1], sorted[2])
    IN  find(commitSet(scenarios, activeScenarioId, refs.paintTarget[1], painted,
                       refs.paintMode),
             activeScenarioId)

\* the months of the row of the target the claim is about
RowMonths(sc, target) ==
    IF target.kind = "situation" THEN Axis(sc)
    ELSE Axis(sc) \cap ActiveMonths(sc, target.situationId)

\* the row of the gesture's target is on the grid
RowShown ==
    /\ Painting /\ HasActive
    /\ gesture.state.paintTarget[1] \in rowTargets(situations)

\* every cell of the row is shown as the commit of a release would leave it
PreviewAgrees ==
    LET target == gesture.state.paintTarget[1]
    IN  \A m \in RowMonths(Shown, target) :
            cellShownActive(gesture.state, Shown, target, m)
                <=> CommittedActive(Released, target, m)

\* C27: the live preview agrees with the commit: at every moment of a gesture,
\* for every axis month of the target row (for an effect row: every month on
\* which the situation is active), the cell is shown active exactly if it would
\* be active after the commit that a release at that moment produces.
C27_PreviewIsCommit == RowShown => PreviewAgrees

\* a gesture on the row of s1 entered another cell and the effect of that render
\* has not run: a cell is shown active that a release would not make active
C27_Witness ==
    /\ RowShown
    /\ gesture.state.paintTarget = Some(SituationTarget("s1"))
    /\ gesture.state.paintMode = "add"
    /\ gesture.refs.paintCurrent # gesture.state.paintCurrent
    /\ \E m \in Axis(Shown) :
          /\ cellShownActive(gesture.state, Shown, SituationTarget("s1"), m)
          /\ ~CommittedActive(Released, SituationTarget("s1"), m)

\* once the effects of the last render have run, the preview is the commit
C27_PreviewIsCommitWhenEffectsRan ==
    (RowShown /\ gesture.refs = gesture.state) => PreviewAgrees

-----------------------------------------------------------------------------
(* Specification of the store over several operations: addSituation,       *)
(* deleteSituation and paint commits for situations the store holds.       *)

\* most operations of a run
MaxSteps == 4

\* mutant: the overrides of the situation are left in place
deleteSituationSet_entriesOnly(scs, id) ==
    [i \in 1..Len(scs) |->
        [scs[i] EXCEPT !.entries = SelectSeq(@, LAMBDA e : e.situationId # id)]]

\* the scenarios of the store after deleteSituation
deleteSituationSet(scs, id) ==
    [i \in 1..Len(scs) |->
        [scs[i] EXCEPT !.entries = SelectSeq(@, LAMBDA e : e.situationId # id),
                       !.effectEntries = SelectSeq(@, LAMBDA e : e.situationId # id)]]

Step(op, situationId) == [op |-> op, situationId |-> situationId, steps |-> last.steps + 1]

addSituation(s) ==
    /\ situations' = Append(situations, normalizeSituation(s))
    /\ last' = Step("addSituation", s.id)
    /\ UNCHANGED <<scenarios, activeScenarioId, rows, months, ranges, gesture, sync>>

deleteSituation(id) ==
    /\ situations' = SelectSeq(situations, LAMBDA s : s.id # id)
    /\ scenarios' = deleteSituationSet(scenarios, id)
    /\ last' = Step("deleteSituation", id)
    /\ UNCHANGED <<activeScenarioId, rows, months, ranges, gesture, sync>>

\* the ids of the situations of the store
SituationIds == {situations[i].id : i \in 1..Len(situations)}

AddSituation ==
    /\ last.steps < MaxSteps
    /\ \E k \in 1..Len(SampleSituations) : addSituation(SampleSituations[k])

DeleteSituation ==
    /\ last.steps < MaxSteps
    /\ \E id \in {"s1", "s2"} : deleteSituation(id)

\* a paint commit for a situation of the store
PaintPresent ==
    /\ last.steps < MaxSteps
    /\ \E target \in PaintTargets, r \in UniverseRanges, mode \in Modes :
          /\ target.situationId \in SituationIds
          /\ scenarios' = commitSet(scenarios, activeScenarioId, target,
                                    monthsBetween(r[1], r[2]), mode)
          /\ last' = Step(IF target.kind = "situation" THEN "paintEntries"
                          ELSE "paintEffectEntries", target.situationId)
    /\ UNCHANGED <<situations, activeScenarioId, rows, months, ranges, gesture, sync>>

\* the store holds s1; s1 is placed in the active scenario A and in scenario B
InitStore ==
    /\ situations = normalizeSituations(SubSeq(SampleSituations, 1, 1))
    /\ scenarios = DrawnScenarios(
                       [startMonth |-> U(1), durationMonths |-> MaxDuration],
                       << [situationId |-> "s1", startMonth |-> U(1), endMonth |-> U(2)] >>,
                       << [situationId |-> "s1", effectId |-> "e1", startMonth |-> U(2),
                           endMonth |-> U(2)] >>)
    /\ activeScenarioId = "A"
    /\ last = [op |-> "init", situationId |-> "", steps |-> 0]
    /\ rows = <<>>
    /\ months = <<>>
    /\ ranges = NoResult
    /\ gesture = NoResult
    /\ sync = NoResult

NextStore == AddSituation \/ DeleteSituation \/ PaintPresent

SpecStore == InitStore /\ [][NextStore]_vars

\* ---- C29 ----

\* every entry and every override of every scenario names a situation of the store
AllReferencesLive ==
    \A i \in 1..Len(scenarios) :
        /\ \A k \in 1..Len(scenarios[i].entries) :
              scenarios[i].entries[k].situationId \in SituationIds
        /\ \A k \in 1..Len(scenarios[i].effectEntries) :
              scenarios[i].effectEntries[k].situationId \in SituationIds

\* after the step no scenario holds a record of the situation, and the records of
\* the other situations are the ones it held
Deleted(id) ==
    /\ \A k \in 1..Len(situations') : situations'[k].id # id
    /\ Len(scenarios') = Len(scenarios)
    /\ \A i \in 1..Len(scenarios) :
          /\ scenarios'[i].entries = NotOf(scenarios[i].entries, id)
          /\ scenarios'[i].effectEntries = NotOf(scenarios[i].effectEntries, id)

\* C29: deleteSituation(id) removes every entry and every override with that
\* situationId from all scenarios, not only the active one; so after any
\* sequence of addSituation, deleteSituation, paintEntries and
\* paintEffectEntries in which paints are issued only for situations present in
\* the store, every entry and override of every scenario references a situation
\* that exists in the store.
C29_NoDanglingReference ==
    /\ []AllReferencesLive
    /\ [][last'.op = "deleteSituation" => Deleted(last'.situationId)]_vars

\* s2 was added and placed, then s1 was deleted: its entry and its override are
\* gone from the active scenario and from scenario B, the entry of s2 is kept
C29_Witness ==
    /\ last.op = "deleteSituation" /\ last.situationId = "s1"
    /\ SituationIds = {"s2"}
    /\ scenarios[1].id = "A" /\ EntriesOf(scenarios[1], "s2") # <<>>
    /\ scenarios[2].id = "B"
    /\ scenarios[2].entries = <<>> /\ scenarios[2].effectEntries = <<>>

-----------------------------------------------------------------------------
(* ImportExportMenu.tsx: the JSON file import.  `last` holds the state of   *)
(* the menu: the file that waits for the confirmation, the import error.   *)

\* most files read in a run
MaxFiles == 2

\* isValidData of ImportExportMenu.tsx: an object with two arrays
isValidExportFile(data) == data.defined /\ data.situations.isArray /\ data.scenarios.isArray

\* the files the user picks: text that is not JSON, the JSON text null, objects
\* without situations or with scenarios that are no array, and export files
ImportFiles ==
    {[json |-> FALSE, parsed |-> NoData], [json |-> TRUE, parsed |-> NoData]}
        \cup {[json |-> TRUE, parsed |-> DataOf(Missing, Arr(d.scenarios))] : d \in RemoteSnapshots}
        \cup {[json |-> TRUE, parsed |-> DataOf(Arr(d.situations), NotArr)] : d \in RemoteSnapshots}
        \cup {[json |-> TRUE, parsed |-> DataOf(Arr(d.situations), Arr(d.scenarios))] :
                 d \in RemoteSnapshots}

\* the store loadData sets
loadDataSet(data) ==
    LET normalized == normalizeData(data)
    IN  [situations |-> normalized.situations,
         scenarios  |-> normalized.scenarios,
         activeScenarioId |->
             IF normalized.scenarios # <<>> THEN normalized.scenarios[1].id ELSE ""]

\* reader.onload of handleFileChange
FileLoaded ==
    /\ last.op = "menu"
    /\ last.reads < MaxFiles
    /\ \E file \in ImportFiles :
          IF file.json /\ isValidExportFile(file.parsed)
          THEN last' = [last EXCEPT !.reads = @ + 1, !.file = file, !.importError = FALSE,
                                    !.pending = Some(file.parsed)]
          ELSE last' = [last EXCEPT !.reads = @ + 1, !.file = file, !.importError = TRUE]
    /\ UNCHANGED <<situations, scenarios, activeScenarioId, rows, months, ranges, gesture, sync>>

\* confirmImport: loadData with the file that waits
ConfirmImport ==
    /\ last.op = "menu"
    /\ IF last.pending = Null
       THEN UNCHANGED vars
       ELSE LET pending == last.pending[1]
                store   == loadDataSet([situations |-> pending.situations.items,
                                        scenarios  |-> pending.scenarios.items])
            IN  /\ situations' = store.situations
                /\ scenarios' = store.scenarios
                /\ activeScenarioId' = store.activeScenarioId
                /\ last' = [last EXCEPT !.pending = Null]
                /\ UNCHANGED <<rows, months, ranges, gesture, sync>>

\* the button that closes the dialog without importing
CancelImport ==
    /\ last.op = "menu"
    /\ last.pending # Null
    /\ last' = [last EXCEPT !.pending = Null]
    /\ UNCHANGED <<situations, scenarios, activeScenarioId, rows, months, ranges, gesture, sync>>

InitImport ==
    /\ situations = SampleSituations
    /\ scenarios = DrawnScenarios([startMonth |-> U(1), durationMonths |-> MaxDuration],
                                  <<>>, <<>>)
    /\ activeScenarioId = "A"
    /\ last = [op |-> "menu", reads |-> 0, file |-> [json |-> FALSE, parsed |-> NoData],
               importError |-> FALSE, pending |-> Null]
    /\ rows = <<>>
    /\ months = <<>>
    /\ ranges = NoResult
    /\ gesture = NoResult
    /\ sync = NoResult

NextImport == FileLoaded \/ ConfirmImport \/ CancelImport

-----------------------------------------------------------------------------
(* Specification of the two places a snapshot comes in from outside: the   *)
(* sync server with its clients, and the file import of a browser.         *)

InitIntake == InitSync \/ InitImport

NextIntake ==
    \/ last.op = "init" /\ NextSync
    \/ NextImport

SpecIntake == InitIntake /\ [][NextIntake]_vars

\* ---- C25 ----

\* situations or scenarios is missing or not an array
BadSnapshot(data) == ~data.situations.isArray \/ ~data.scenarios.isArray

\* the server takes a request whose body is not JSON or carries a bad snapshot:
\* status 400, and states, files and event streams are as they were
ServerRefuses ==
    last.op = "init" =>
        \A r \in sync.requests \ sync'.requests :
            (~r.body.json \/ BadSnapshot(r.body.data)) =>
                /\ sync'.status = 400
                /\ sync'.states = sync.states
                /\ sync'.files = sync.files
                /\ sync'.streams = sync.streams

\* the import reads a file that is not JSON or holds a bad snapshot: the error is
\* shown, nothing waits for a confirmation that did not before, the store is as
\* it was; and loadData is only ever called with a snapshot of two arrays
ImportRefuses ==
    last.op = "menu" =>
        /\ (last'.reads = last.reads + 1
                /\ (~last'.file.json \/ BadSnapshot(last'.file.parsed))) =>
              /\ last'.importError
              /\ last'.pending = last.pending
              /\ UNCHANGED <<situations, scenarios, activeScenarioId>>
        /\ ~(UNCHANGED <<situations, scenarios, activeScenarioId>>) =>
              /\ last.pending # Null
              /\ ~BadSnapshot(last.pending[1])
              /\ situations' = normalizeSituations(last.pending[1].situations.items)

\* C25: a snapshot in which situations or scenarios is missing or not an array
\* never replaces state: the JSON file import rejects it (loadData is not called,
\* the store is unchanged, an import error is shown) and the sync server answers
\* the PUT with status 400, leaving stored data and version unchanged, writing
\* no file and broadcasting nothing; the same holds for a PUT body that is not
\* valid JSON.
C25_InvalidNeverReplaces == [][ServerRefuses /\ ImportRefuses]_vars

\* a file without situations was read while an export file waited for its
\* confirmation: the error is shown, the store is the one the run began with
C25_Witness ==
    /\ last.op = "menu"
    /\ last.reads = 2
    /\ last.file.json /\ last.file.parsed.defined
    /\ ~last.file.parsed.situations.isArray
    /\ last.importError
    /\ last.pending # Null
    /\ situations = SampleSituations

\* the server answered 400 to every PUT of the run, bad snapshots and text that is
\* not JSON: no profile has a new version, no file was written
C25_ServerWitness ==
    /\ last.op = "init"
    /\ sync.puts = MaxPuts /\ sync.requests = {}
    /\ sync.status = 400
    /\ \A p \in Profiles : sync.states[p].version = sync.start[p] /\ sync.accepted[p] = <<>>

-----------------------------------------------------------------------------
(* Specification of the profile-aware server alone: PUTs and event streams *)
(* under any profile parameter.  A profile parameter is the sequence of    *)
(* its characters, Null when the request has none.                         *)

\* [a-zA-Z0-9_-]
SafeChars ==
    {"a", "b", "c", "d", "e", "f", "g", "h", "i", "j", "k", "l", "m", "n", "o", "p", "q",
     "r", "s", "t", "u", "v", "w", "x", "y", "z",
     "A", "B", "C", "D", "E", "F", "G", "H", "I", "J", "K", "L", "M", "N", "O", "P", "Q",
     "R", "S", "T", "U", "V", "W", "X", "Y", "Z",
     "0", "1", "2", "3", "4", "5", "6", "7", "8", "9", "_", "-"}

\* the string of a sequence of characters
RECURSIVE Join(_)
Join(chars) == IF chars = <<>> THEN "" ELSE Head(chars) \o Join(Tail(chars))

\* mutant: the packet is written to the streams of every profile
broadcastToProfile_all(streams, subscribers, payload) ==
    [c \in Clients |-> Append(streams[c], payload)]

\* broadcastToProfile: the packet is written to the streams of getClients(profile)
broadcastToProfile(streams, subscribers, payload) == broadcast(streams, subscribers, payload)

safeProfile(profile) ==
    IF profile = Null \/ profile = Some(<<>>) \/ Join(profile[1]) = "default" THEN "default"
    ELSE LET kept == SelectSeq(profile[1], LAMBDA ch : ch \in SafeChars)
             cut  == SubSeq(kept, 1, IF Len(kept) < 64 THEN Len(kept) ELSE 64)
         IN  IF cut = <<>> THEN "default" ELSE Join(cut)

\* the profile parameters of the requests: none, '', 'default', 'p', 'p.', '../'
ProfileParams ==
    {Null, Some(<<>>), Some(<<"d", "e", "f", "a", "u", "l", "t">>), Some(<<"p">>),
     Some(<<"p", ".">>), Some(<<".", ".", "/">>)}

\* PUT /api/state?profile=..., received
ProfileRequest ==
    /\ sync.puts < MaxPuts
    /\ \E body \in RawBodies \cup {Body("other", 0, D2)}, param \in ProfileParams :
          sync' = [sync EXCEPT
                      !.puts = @ + 1,
                      !.requests = @ \cup {[id |-> sync.puts + 1, sender |-> "other",
                                            profile |-> safeProfile(param), body |-> body]}]
    /\ UNCHANGED <<situations, scenarios, activeScenarioId, last, rows, months, ranges, gesture>>

\* PUT /api/state?profile=..., handled
ProfilePut ==
    /\ \E r \in sync.requests :
          LET parsed   == r.body
              profile  == r.profile
              current  == sync.states[profile]
              newState == [version |-> current.version + 1, data |-> parsed.data]
              taken    == [sync EXCEPT !.requests = @ \ {r}]
          IN  IF ~parsed.json \/ ~isValidData(parsed.data)
              THEN sync' = [taken EXCEPT !.status = 400]
              ELSE \E written \in BOOLEAN :
                      sync' = [taken EXCEPT
                                  !.states[profile] = newState,
                                  !.files[profile] = IF written THEN Some(newState) ELSE @,
                                  !.streams = broadcastToProfile(@, sync.subscribers[profile],
                                                                 eventPayload(newState, parsed)),
                                  !.status = 200]
    /\ UNCHANGED <<situations, scenarios, activeScenarioId, last, rows, months, ranges, gesture>>

\* GET /api/events?profile=...: the stream starts with the state of the profile
ProfileEvents ==
    /\ \E c \in Clients, param \in ProfileParams :
          LET profile == safeProfile(param)
          IN  /\ \A p \in Profiles : c \notin sync.subscribers[p]
              /\ sync' = [sync EXCEPT
                             !.streams[c] = Append(@, statePayload(sync.states[profile])),
                             !.subscribers[profile] = @ \cup {c}]
    /\ UNCHANGED <<situations, scenarios, activeScenarioId, last, rows, months, ranges, gesture>>

\* the server has loaded a file for the profile default, or none
InitProfiles ==
    /\ \E loaded \in {Null, Some([version |-> LoadedVersion, data |-> D1])} :
          sync = [states      |-> [p \in Profiles |->
                                      IF p = "default" /\ loaded # Null THEN loaded[1]
                                      ELSE emptyState],
                  files       |-> [p \in Profiles |-> IF p = "default" THEN loaded ELSE Null],
                  start       |-> [p \in Profiles |->
                                      IF p = "default" /\ loaded # Null THEN loaded[1].version
                                      ELSE 0],
                  subscribers |-> [p \in Profiles |-> {}],
                  streams     |-> [c \in Clients |-> <<>>],
                  requests    |-> {},
                  status      |-> 0,
                  puts        |-> 0]
    /\ situations = <<>>
    /\ scenarios = <<>>
    /\ activeScenarioId = ""
    /\ last = NoOp
    /\ rows = <<>>
    /\ months = <<>>
    /\ ranges = NoResult
    /\ gesture = NoResult

NextProfiles == ProfileRequest \/ ProfilePut \/ ProfileEvents

SpecProfiles == InitProfiles /\ [][NextProfiles]_vars

\* ---- C30 ----

\* the step handles the PUT r
Handles(r) == r \in sync.requests /\ r \notin sync'.requests

\* what GET /api/state and the event stream of profile q deliver is as it was
Untouched(q) ==
    /\ statePayload(sync'.states[q]) = statePayload(sync.states[q])
    /\ sync'.files[q] = sync.files[q]
    /\ \A c \in sync.subscribers[q] : sync'.streams[c] = sync.streams[c]

\* C30: profiles are isolated on the sync server: a PUT for profile P changes
\* only P's stored data and version and is broadcast only to the SSE clients
\* subscribed to P; what GET /api/state and the event stream deliver for any
\* other profile Q is the same as if the PUT had not happened.
C30_ProfilesIsolated ==
    [][\A r \in sync.requests :
          Handles(r) =>
              /\ \A q \in Profiles \ {r.profile} : Untouched(q)
              /\ \A c \in Clients :
                    sync'.streams[c] # sync.streams[c] => c \in sync.subscribers[r.profile]
              /\ (r.body.json /\ ~BadSnapshot(r.body.data)) =>
                    /\ sync'.states[r.profile].version = sync.states[r.profile].version + 1
                    /\ sync'.states[r.profile].data = r.body.data
                    /\ \A c \in sync.subscribers[r.profile] :
                          sync'.streams[c] # sync.streams[c]]_vars

\* one client listens to each profile; a PUT for p was accepted: the stream of p
\* carries the state and the broadcast, the stream and the state of default are
\* the ones from before
C30_Witness ==
    /\ sync.subscribers["default"] # {} /\ sync.subscribers["p"] # {}
    /\ sync.states["p"].version = 1
    /\ sync.states["default"].version = sync.start["default"]
    /\ \A c \in sync.subscribers["p"] : Len(sync.streams[c]) = 2
    /\ \A c \in sync.subscribers["default"] : Len(sync.streams[c]) = 1
    /\ sync.status = 200 /\ sync.requests = {}

\* ---- C26 ----

\* nothing is pending: no debounce timer, no PUT on its way, no answer and no
\* event undelivered, no client in the middle of its bootstrap
Quiescent ==
    /\ sync.requests = {}
    /\ \A c \in Clients :
          /\ sync.streams[c] = <<>>
          /\ sync.responses[c] = <<>>
          /\ sync.clients[c].timer = Null
          /\ sync.clients[c].phase \in {"boot", "connected"}

\* every connected client holds the data the server stores
Converged ==
    \A c \in Clients :
        sync.clients[c].phase = "connected" =>
            sync.clients[c].data = sync.states["default"].data

\* C26: sync converges: once local edits stop and every pending debounce timer,
\* PUT request and SSE message has been processed, the situations and scenarios
\* held by every connected client equal the data stored on the server, also when
\* a remote snapshot reaches a client between one of its local edits and the
\* debounced push of that edit.
C26_Converges == Quiescent => Converged

\* with the server that goes on when a file cannot be written: nothing is
\* pending, both clients are connected and have seen the last version, and one
\* of them holds data the server does not store
C26_Witness ==
    /\ sync.variant = "profiles"
    /\ Quiescent
    /\ \A c \in Clients :
          /\ sync.clients[c].phase = "connected"
          /\ sync.clients[c].latestVersion = sync.states["default"].version
    /\ sync.edits = 1
    /\ ~Converged

====
